---- MODULE Spec2Model ----
(***************************************************************************)
(* A model of radical (dist/radical.js): Actions and Namespaces composed   *)
(* into a tree whose root Namespace's reduce is the reducer of a Redux     *)
(* store.  JavaScript objects live on a heap and are addressed by          *)
(* reference, so that sharing between the store's state, the components'   *)
(* defaultState objects and references held by the application is part of  *)
(* the model.  A "world" is one program: heap, component tree and store.   *)
(***************************************************************************)
EXTENDS Naturals, Sequences, FiniteSets, TLC

VARIABLES w, cw, last

vars == <<w, cw, last>>

---------------------------------------------------------------------------
(* JavaScript values.  Every value is a string: a primitive is written as  *)
(* its literal, a reference to a heap object as "o<i>".                    *)

\* how deep a chain of nested calls or nested objects is followed before the
\* engine gives up (JavaScript: RangeError, maximum call stack size exceeded)
StackDepth == 4

Undefined == "undefined"
Null == "null"

\* the values the code's `!state` test treats as absent
Falsy == {Undefined, Null, "0", "", "false"}

Truthy(v) == v \notin Falsy

\* JavaScript's loose equality (==, !=) on the values of the model: names and
\* message types are strings, undefined or null
LooseEq(a, b) == a = b \/ ({a, b} \subseteq {Undefined, Null})

Ref(i) == "o" \o ToString(i)

IsRef(h, v) == \E i \in 1..Len(h) : Ref(i) = v

RefIdx(h, r) == CHOOSE i \in 1..Len(h) : Ref(i) = r

\* an object is a function from its own property names to values
EmptyObj == [k \in {} |-> Undefined]

Obj1(k, v) == [x \in {k} |-> v]

ObjSet(o, k, v) == [x \in DOMAIN o \cup {k} |-> IF x = k THEN v ELSE o[x]]

ObjDel(o, k) == [x \in DOMAIN o \ {k} |-> o[x]]

Deref(h, r) == h[RefIdx(h, r)]

\* every property name used by the model, in a fixed order (the order in
\* which values are compared and the heap is traversed)
KeySeq ==
    <<"type", "greeting", "target", "value", "x", "y", "counter", "other", "seen", "sub",
      "inc", "parent">>

Keys == {KeySeq[i] : i \in 1..Len(KeySeq)}

\* v[k] for a present object v
Get(h, v, k) == IF IsRef(h, v) /\ k \in DOMAIN Deref(h, v) THEN Deref(h, v)[k] ELSE Undefined

HasOwn(h, v, k) == IsRef(h, v) /\ k \in DOMAIN Deref(h, v)

\* a value with references replaced by the contents they lead to: equal
\* Deep values have the same keys and the same values at every depth
\* (an object graph deeper than StackDepth, which only a cyclic one is, is cut)
RECURSIVE DeepTo(_, _, _)
DeepTo(h, v, d) ==
    IF IsRef(h, v)
    THEN IF d = 0
         THEN [k \in {"cut"} |-> "cut"]
         ELSE [k \in DOMAIN Deref(h, v) |-> DeepTo(h, Deref(h, v)[k], d - 1)]
    ELSE [k \in {"prim"} |-> v]

Deep(h, v) == DeepTo(h, v, StackDepth)

Prim(v) == [k \in {"prim"} |-> v]

---------------------------------------------------------------------------
(* The components.  Every program of the model is built from this fixed    *)
(* population; `coll` says whether its classes are the Collection ones.    *)

Namespaces == {"root", "sub"}

Actions == {"greetTarget", "setTarget", "setGreeting", "send", "inc", "watch"}

Comps == Namespaces \cup Actions

IsAction(c) == c \in Actions

\* value instanceof ApiComponent
IsComponent(v) == v \in Comps

\* the {location, component, stateLocation} records the application puts in a
\* list of components; a record is a plain object, named here by "r<i>"
RecordOf(r) ==
    IF r = "r1"
    THEN [location |-> "watch", component |-> "watch", stateLocation |-> Undefined]
    ELSE [location |-> "inc", component |-> "inc", stateLocation |-> "counter"]

\* a property name that is an array index: for..in visits these first, in
\* ascending order, before the names in insertion order
IsIndex(key) == key \in {"0", "1"}

\* the concrete type's name, which ApiComponent.configure gives an unnamed component
ConstructorName(coll, c) ==
    IF IsAction(c)
    THEN (IF coll THEN "CollectionAction" ELSE "Action")
    ELSE (IF coll THEN "CollectionNamespace" ELSE "Namespace")

\* a reducer is one function or an ordered list of functions
OneFn(f) == [isFn |-> TRUE, fns |-> <<f>>]

FnList(fs) == [isFn |-> FALSE, fns |-> fs]

\* a world before anything is constructed
World0(coll) ==
    [coll |-> coll,
     heap |-> <<>>,
     name |-> [c \in Comps |-> Undefined],
     parent |-> [c \in Comps |-> Undefined],
     dflt |-> [c \in Comps |-> Undefined],
     reducer |-> [c \in Comps |-> OneFn("default")],
     initiator |-> [c \in Comps |-> "default"],
     ownCaps |-> [c \in Comps |-> FALSE],
     comps |-> [c \in Comps |-> <<>>],
     sloc |-> [c \in Comps |-> EmptyObj],
     acc |-> [c \in Comps |-> EmptyObj],
     fields |-> [c \in Comps |-> <<>>],
     store |-> Undefined,
     installed |-> FALSE,
     ret |-> Undefined,
     err |-> "",
     fired |-> <<>>,
     sent |-> <<>>,
     calls |-> <<>>]

Throw(wd, e) == [wd EXCEPT !.err = e]

Return(wd, v) == [wd EXCEPT !.ret = v]

\* a new object on the heap; its reference is NewRef(wd) of the world before
NewRef(wd) == Ref(Len(wd.heap) + 1)

Alloc(wd, obj) == [wd EXCEPT !.heap = Append(@, obj)]

Store(wd, r, obj) == [wd EXCEPT !.heap[RefIdx(wd.heap, r)] = obj]

\* this.defaultState = {...} in a constructor: component c is given a new object
AllocDefault(wd, c, obj) == [Alloc(wd, obj) EXCEPT !.dflt[c] = NewRef(wd)]

\* the own properties of message m other than type, merged over object o
MergeMsg(o, m) ==
    [k \in DOMAIN o \cup (DOMAIN m \ {"type"}) |->
        IF k \in DOMAIN m \ {"type"} THEN m[k] ELSE o[k]]

---------------------------------------------------------------------------
(* Reducers.  Every operation takes a world and returns the world after    *)
(* it: `ret` is the value it returned, `err` the exception it threw (""    *)
(* when it returned normally), `fired` the calls of reducer functions it   *)
(* made, each with the state (by content) and message type it was given    *)
(* and the state (by content) it returned, `sent` the messages handed to   *)
(* the store, `calls` the initiators invoked, each with its receiver, its  *)
(* first parameter and the argument after it.                              *)

Failed(wd) == wd.err # ""

\* Action.reducer copying the message's type as well
ActionReducer_CopiesType(wd, state, msg) ==
    LET m == Deref(wd.heap, msg)
        all == [k \in DOMAIN Deref(wd.heap, state) \cup DOMAIN m |->
                   IF k \in DOMAIN m THEN m[k] ELSE Deref(wd.heap, state)[k]]
    IN  IF DOMAIN m = {} THEN Return(wd, state)
        ELSE IF ~IsRef(wd.heap, state) THEN Throw(wd, "TypeError")
        ELSE Return(Store(wd, state, all), state)

\* Action.reducer, the default: copies the message's fields except type onto
\* the state object it was given (an assignment to a property of a primitive
\* throws in strict mode)
ActionReducer(wd, state, msg) ==
    LET m == Deref(wd.heap, msg)
    IN  IF DOMAIN m \ {"type"} = {} THEN Return(wd, state)
        ELSE IF ~IsRef(wd.heap, state) THEN Throw(wd, "TypeError")
        ELSE Return(Store(wd, state, MergeMsg(Deref(wd.heap, state), m)), state)

\* CollectionAction.reducer, the default: state = state.set(key, value) for
\* the message's fields except type; set returns a new collection
CollectionActionReducer(wd, state, msg) ==
    LET m == Deref(wd.heap, msg)
    IN  IF DOMAIN m \ {"type"} = {} THEN Return(wd, state)
        ELSE IF ~IsRef(wd.heap, state) THEN Throw(wd, "TypeError")
        ELSE Return(Alloc(wd, MergeMsg(Deref(wd.heap, state), m)), NewRef(wd))

\* a reducer the application supplies, for a whole-state Action that reads a
\* sibling's slice: state.seen = state.counter ? state.counter.value : undefined
\* (on the state object it was given, as the README allows; with set on a
\* collection)
ObserveReducer(wd, state, msg) ==
    LET seen == Get(wd.heap, Get(wd.heap, state, "counter"), "value")
    IN  IF ~IsRef(wd.heap, state) THEN Throw(wd, "TypeError")
        ELSE IF wd.coll
        THEN Return(Alloc(wd, ObjSet(Deref(wd.heap, state), "seen", seen)), NewRef(wd))
        ELSE Return(Store(wd, state, ObjSet(Deref(wd.heap, state), "seen", seen)), state)

\* the call f(state, action) of one reducer function of Action a
CallReducer(wd, a, fn, state, msg) ==
    LET Apply(logged) ==
            CASE fn = "default" ->
                    IF wd.coll THEN CollectionActionReducer(logged, state, msg)
                    ELSE ActionReducer(logged, state, msg)
              [] fn = "observe" -> ObserveReducer(logged, state, msg)
              [] OTHER -> Throw(logged, "UserError")
        Out(x) ==
            IF Failed(x) THEN x
            ELSE [x EXCEPT !.fired[Len(wd.fired) + 1].out = Deep(x.heap, x.ret)]
    IN  Out(Apply([wd EXCEPT !.fired = Append(@,
                      [a |-> a, fn |-> fn, state |-> Deep(wd.heap, state),
                       type |-> Get(wd.heap, msg, "type"),
                       out |-> Prim(Undefined)])]))

\* this.reducer.reduce(function (s, f) { return f(s, action); }, state)
RECURSIVE FoldReducers(_, _, _, _, _, _)

\* the fold giving every function the state reduce was called with
RECURSIVE FoldReducers_SameState(_, _, _, _, _, _)
FoldReducers_SameState(wd, a, fns, i, s, msg) ==
    IF Failed(wd) THEN wd
    ELSE IF i > Len(fns) THEN wd
    ELSE FoldReducers_SameState(CallReducer(wd, a, fns[i], s, msg), a, fns, i + 1, s, msg)

FoldReducers(wd, a, fns, i, s, msg) ==
    IF Failed(wd) THEN wd
    ELSE IF i > Len(fns) THEN Return(wd, s)
    ELSE LET Rest(w1) == FoldReducers(w1, a, fns, i + 1, w1.ret, msg)
         IN  Rest(CallReducer(wd, a, fns[i], s, msg))

\* whether message msg is of Action a's type: !(action.type != this.name)
TypeMatches(wd, a, msg) == LooseEq(Get(wd.heap, msg, "type"), wd.name[a])

\* Action.reduce without the test of the message's type
ActionReduce_NoTypeGate(wd, a, state, msg) ==
    IF ~Truthy(state) THEN Return(wd, wd.dflt[a])
    ELSE IF wd.reducer[a].isFn
    THEN CallReducer(wd, a, wd.reducer[a].fns[1], state, msg)
    ELSE FoldReducers(wd, a, wd.reducer[a].fns, 1, state, msg)

\* Action.reduce resetting the state on a message of another type
ActionReduce_ResetOnOtherType(wd, a, state, msg) ==
    IF ~Truthy(state) \/ ~TypeMatches(wd, a, msg) THEN Return(wd, wd.dflt[a])
    ELSE IF wd.reducer[a].isFn
    THEN CallReducer(wd, a, wd.reducer[a].fns[1], state, msg)
    ELSE FoldReducers(wd, a, wd.reducer[a].fns, 1, state, msg)

\* Action.reduce testing the message's type before the state's absence
ActionReduce_TypeFirst(wd, a, state, msg) ==
    IF ~TypeMatches(wd, a, msg) THEN Return(wd, state)
    ELSE IF ~Truthy(state) THEN Return(wd, wd.dflt[a])
    ELSE IF wd.reducer[a].isFn
    THEN CallReducer(wd, a, wd.reducer[a].fns[1], state, msg)
    ELSE FoldReducers(wd, a, wd.reducer[a].fns, 1, state, msg)

\* Action.reduce (this.reducer is never falsy: configure only replaces the
\* default reducer by a truthy one)
ActionReduce(wd, a, state, msg) ==
    IF ~Truthy(state) THEN Return(wd, wd.dflt[a])
    ELSE IF ~TypeMatches(wd, a, msg) THEN Return(wd, state)
    ELSE IF wd.reducer[a].isFn
    THEN CallReducer(wd, a, wd.reducer[a].fns[1], state, msg)
    ELSE FoldReducers(wd, a, wd.reducer[a].fns, 1, state, msg)

\* this._stateLocation[location]
StateLocationAt(wd, n, loc) ==
    IF loc \in DOMAIN wd.sloc[n] THEN wd.sloc[n][loc] ELSE Undefined

RECURSIVE ComponentReduce(_, _, _, _, _)
RECURSIVE NamespaceReduceChildren(_, _, _, _, _, _)
RECURSIVE CollectionNamespaceReduceChildren(_, _, _, _, _, _)

\* the loop of Namespace.reduce giving every child the whole state
NamespaceReduceChildren_WholeState(wd, n, i, newState, msg, d) ==
    IF Failed(wd) THEN wd
    ELSE IF i > Len(wd.comps[n]) THEN Return(wd, newState)
    ELSE LET Pass(w1) == NamespaceReduceChildren(w1, n, i + 1, w1.ret, msg, d)
         IN  Pass(ComponentReduce(wd, wd.comps[n][i].c, newState, msg, d - 1))

\* Namespace.reduce, the loop over this.components in mount order, on the
\* working copy newState
NamespaceReduceChildren(wd, n, i, newState, msg, d) ==
    IF Failed(wd) THEN wd
    ELSE IF i > Len(wd.comps[n]) THEN Return(wd, newState)
    ELSE LET e == wd.comps[n][i]
             stateLocation == StateLocationAt(wd, n, e.loc)
             Put(w1) ==
                 IF Failed(w1) THEN w1
                 ELSE NamespaceReduceChildren(
                          Store(w1, newState,
                                ObjSet(Deref(w1.heap, newState), stateLocation, w1.ret)),
                          n, i + 1, newState, msg, d)
             Pass(w1) == NamespaceReduceChildren(w1, n, i + 1, w1.ret, msg, d)
         IN  IF Truthy(stateLocation)
             THEN IF ~IsRef(wd.heap, newState) THEN Throw(wd, "TypeError")
                  ELSE Put(ComponentReduce(wd, e.c,
                               Get(wd.heap, newState, stateLocation), msg, d - 1))
             ELSE Pass(ComponentReduce(wd, e.c, newState, msg, d - 1))

\* CollectionNamespace.reduce, the loop: state.set returns a new collection
CollectionNamespaceReduceChildren(wd, n, i, state, msg, d) ==
    IF Failed(wd) THEN wd
    ELSE IF i > Len(wd.comps[n]) THEN Return(wd, state)
    ELSE LET e == wd.comps[n][i]
             stateLocation == StateLocationAt(wd, n, e.loc)
             Put(w1) ==
                 IF Failed(w1) THEN w1
                 ELSE CollectionNamespaceReduceChildren(
                          Alloc(w1, ObjSet(Deref(w1.heap, state), stateLocation, w1.ret)),
                          n, i + 1, NewRef(w1), msg, d)
             Pass(w1) == CollectionNamespaceReduceChildren(w1, n, i + 1, w1.ret, msg, d)
         IN  IF Truthy(stateLocation)
             THEN IF ~IsRef(wd.heap, state) THEN Throw(wd, "TypeError")
                  ELSE Put(ComponentReduce(wd, e.c,
                               Get(wd.heap, state, stateLocation), msg, d - 1))
             ELSE Pass(ComponentReduce(wd, e.c, state, msg, d - 1))

\* Namespace.reduce working on a copy of the default state instead of the state
NamespaceReduce_FromDefault(wd, n, state, msg, d) ==
    IF ~Truthy(state) THEN Return(wd, wd.dflt[n])
    ELSE LET copy == IF IsRef(wd.heap, wd.dflt[n]) THEN Deref(wd.heap, wd.dflt[n])
                     ELSE EmptyObj
         IN  NamespaceReduceChildren(Alloc(wd, copy), n, 1, NewRef(wd), msg, d)

\* Namespace.reduce: the default state for an absent state, else the children
\* applied in turn to a shallow copy of the state
NamespaceReduce(wd, n, state, msg, d) ==
    IF ~Truthy(state) THEN Return(wd, wd.dflt[n])
    ELSE LET copy == IF IsRef(wd.heap, state) THEN Deref(wd.heap, state) ELSE EmptyObj
         IN  NamespaceReduceChildren(Alloc(wd, copy), n, 1, NewRef(wd), msg, d)

\* CollectionNamespace.reduce
CollectionNamespaceReduce(wd, n, state, msg, d) ==
    IF ~Truthy(state) THEN Return(wd, wd.dflt[n])
    ELSE CollectionNamespaceReduceChildren(wd, n, 1, state, msg, d)

\* component.reduce(state, action), d calls deep at most; a value that is not
\* a component has no reduce to call
ComponentReduce(wd, c, state, msg, d) ==
    IF d = 0 THEN Throw(wd, "RangeError")
    ELSE IF ~IsComponent(c) THEN Throw(wd, "TypeError")
    ELSE IF IsAction(c) THEN ActionReduce(wd, c, state, msg)
    ELSE IF wd.coll THEN CollectionNamespaceReduce(wd, c, state, msg, d)
    ELSE NamespaceReduce(wd, c, state, msg, d)

---------------------------------------------------------------------------
(* The component tree: configure, mount, unmount, the lookups.  A          *)
(* Namespace's components are a list of [loc, c] in insertion order (the   *)
(* order of for..in); `fields` lists, in insertion order, the names of its *)
(* own properties that hold or held a component or an accessor ("parent"   *)
(* and the mount locations), which is what Namespace.configure scans.      *)

Range(s) == {s[i] : i \in 1..Len(s)}

HasField(wd, c, key) == key \in Range(wd.fields[c])

\* this[key] = ...: a new own property is added after the existing ones
AddField(wd, c, key) ==
    IF HasField(wd, c, key) THEN wd ELSE [wd EXCEPT !.fields[c] = Append(@, key)]

\* delete this[key]
DelField(wd, c, key) ==
    [wd EXCEPT !.fields[c] = SelectSeq(@, LAMBDA x : x # key)]

\* this.components.hasOwnProperty(location)
Registered(wd, n, loc) == \E i \in 1..Len(wd.comps[n]) : wd.comps[n][i].loc = loc

\* this.components = {} is a plain object: a name it has no own property for
\* is looked up in Object.prototype, where "constructor" finds the function
\* Object; any other name of the model finds nothing
Inherited(loc) == IF loc = "constructor" THEN "Object" ELSE Undefined

\* this.components[location], Undefined when there is none
ComponentAt(wd, n, loc) ==
    IF Registered(wd, n, loc)
    THEN wd.comps[n][CHOOSE i \in 1..Len(wd.comps[n]) : wd.comps[n][i].loc = loc].c
    ELSE Inherited(loc)

\* this.components[key] = component adding a new key before the existing ones
SetComponent_Prepends(wd, n, loc, c) ==
    IF Registered(wd, n, loc)
    THEN [wd EXCEPT !.comps[n] =
             [i \in 1..Len(@) |-> IF @[i].loc = loc THEN [loc |-> loc, c |-> c] ELSE @[i]]]
    ELSE [wd EXCEPT !.comps[n] = <<[loc |-> loc, c |-> c]>> \o @]

\* this.components[key] = component: replaces in place, or adds at the end
\* (an index after the smaller indices and before every name)
SetComponent(wd, n, loc, c) ==
    IF Registered(wd, n, loc)
    THEN [wd EXCEPT !.comps[n] =
             [i \in 1..Len(@) |-> IF @[i].loc = loc THEN [loc |-> loc, c |-> c] ELSE @[i]]]
    ELSE IF IsIndex(loc)
    THEN [wd EXCEPT !.comps[n] =
             SelectSeq(@, LAMBDA e : e.loc = "0")
                 \o <<[loc |-> loc, c |-> c]>>
                 \o SelectSeq(@, LAMBDA e : e.loc # "0")]
    ELSE [wd EXCEPT !.comps[n] = Append(@, [loc |-> loc, c |-> c])]

\* Namespace.mountLocation: the first location holding the component, or null
MountLocation(wd, n, c) ==
    IF \E i \in 1..Len(wd.comps[n]) : wd.comps[n][i].c = c
    THEN LET first == CHOOSE i \in 1..Len(wd.comps[n]) :
                          /\ wd.comps[n][i].c = c
                          /\ \A j \in 1..(i - 1) : wd.comps[n][j].c # c
         IN  wd.comps[n][first].loc
    ELSE Null

\* Namespace.stateLocation
StateLocation(wd, n, c) == StateLocationAt(wd, n, MountLocation(wd, n, c))

\* a configuration object; Undefined and FALSE stand for an absent option
NoConfig ==
    [given |-> FALSE, isFunction |-> FALSE, name |-> Undefined, parent |-> Undefined,
     caps |-> FALSE, defaultState |-> Undefined, reducer |-> FnList(<<>>),
     hasReducer |-> FALSE, initiator |-> Undefined, components |-> <<>>]

Config == [NoConfig EXCEPT !.given = TRUE]

\* Action.create(function ...): the function is the initiator
FunctionConfig(f) == [Config EXCEPT !.isFunction = TRUE, !.initiator = f]

\* ApiComponent.configure
ApiComponentConfigure(wd, c, cfg) ==
    LET SetParent(x) ==
            IF cfg.given /\ cfg.parent # Undefined
            THEN AddField([x EXCEPT !.parent[c] = cfg.parent], c, "parent")
            ELSE x
        SetCaps(x) == IF cfg.given /\ cfg.caps THEN [x EXCEPT !.ownCaps[c] = TRUE] ELSE x
        SetDefaultState(x) ==
            IF cfg.given /\ Truthy(cfg.defaultState)
            THEN [x EXCEPT !.dflt[c] = cfg.defaultState]
            ELSE x
        SetName(x) ==
            IF cfg.given /\ Truthy(cfg.name) THEN [x EXCEPT !.name[c] = cfg.name] ELSE x
        DefaultName(x) ==
            IF ~Truthy(x.name[c])
            THEN [x EXCEPT !.name[c] = ConstructorName(x.coll, c)]
            ELSE x
    IN  DefaultName(SetName(SetDefaultState(SetCaps(SetParent(wd)))))

\* Action.configure (the endpoint option is left out)
ActionConfigure(wd, a, cfg) ==
    IF ~cfg.given THEN wd
    ELSE IF cfg.isFunction THEN [wd EXCEPT !.initiator[a] = cfg.initiator]
    ELSE LET SetReducer(x) ==
                 IF cfg.hasReducer THEN [x EXCEPT !.reducer[a] = cfg.reducer] ELSE x
             SetInitiator(x) ==
                 IF Truthy(cfg.initiator) THEN [x EXCEPT !.initiator[a] = cfg.initiator]
                 ELSE x
         IN  SetInitiator(SetReducer(ApiComponentConfigure(wd, a, cfg)))

\* every property of src written over object o
Assign(o, src) ==
    [k \in DOMAIN o \cup DOMAIN src |-> IF k \in DOMAIN src THEN src[k] ELSE o[k]]

\* Namespace.updateDefaultState: writes into the defaultState object
NamespaceUpdateDefaultState(wd, n, stateLocation, state) ==
    LET d == wd.dflt[n]
    IN  IF ~IsRef(wd.heap, d) THEN Throw(wd, "TypeError")
        ELSE IF Truthy(stateLocation)
        THEN Store(wd, d, ObjSet(Deref(wd.heap, d), stateLocation, state))
        ELSE IF IsRef(wd.heap, state)
        THEN Store(wd, d, Assign(Deref(wd.heap, d), Deref(wd.heap, state)))
        ELSE wd

\* CollectionNamespace.updateDefaultState: set and merge return a new
\* collection, which becomes this.defaultState
CollectionNamespaceUpdateDefaultState(wd, n, stateLocation, state) ==
    LET d == wd.dflt[n]
    IN  IF ~IsRef(wd.heap, d) THEN Throw(wd, "TypeError")
        ELSE IF Truthy(stateLocation)
        THEN [Alloc(wd, ObjSet(Deref(wd.heap, d), stateLocation, state))
                 EXCEPT !.dflt[n] = NewRef(wd)]
        ELSE IF IsRef(wd.heap, state)
        THEN [Alloc(wd, Assign(Deref(wd.heap, d), Deref(wd.heap, state)))
                 EXCEPT !.dflt[n] = NewRef(wd)]
        ELSE wd

UpdateDefaultState(wd, n, stateLocation, state) ==
    IF wd.coll THEN CollectionNamespaceUpdateDefaultState(wd, n, stateLocation, state)
    ELSE NamespaceUpdateDefaultState(wd, n, stateLocation, state)

\* Namespace.nameComponent: component.configure({name: this.name + ": " + location})
NameComponent(wd, n, c, loc) ==
    ActionConfigure(wd, c, [Config EXCEPT !.name = wd.name[n] \o ": " \o loc])

\* Namespace.mount registering the component also at a location in use
Mount_LastWins(wd, n, loc, c, stateLocation) ==
    LET Register(x) ==
            SetComponent(x, n, loc, c)
        Expose(x) ==
            IF IsAction(c)
            THEN AddField([x EXCEPT
                     !.sloc[n] = ObjSet(@, loc, stateLocation),
                     !.acc[n] = ObjSet(@, loc, [c |-> c, bound |-> x.initiator[c]])],
                   n, loc)
            ELSE AddField([x EXCEPT
                     !.sloc[n] = ObjSet(@, loc,
                         IF Truthy(stateLocation) THEN stateLocation ELSE loc),
                     !.acc[n] = ObjSet(@, loc, [c |-> c, bound |-> "component"])],
                   n, loc)
        Name(x) ==
            IF IsAction(c) /\ ~Truthy(x.name[c]) THEN NameComponent(x, n, c, loc) ELSE x
        Defaults(x) ==
            IF Truthy(x.dflt[c])
            THEN UpdateDefaultState(x, n, StateLocationAt(x, n, loc), x.dflt[c])
            ELSE x
    IN  Defaults(Name(Expose(Register(
            AddField([wd EXCEPT !.parent[c] = n], c, "parent")))))

\* Namespace.mount adding a registration on every call
Mount_RegistersAgain(wd, n, loc, c, stateLocation) ==
    LET Register(x) ==
            [x EXCEPT !.comps[n] = Append(@, [loc |-> loc, c |-> c])]
        Expose(x) ==
            IF IsAction(c)
            THEN AddField([x EXCEPT
                     !.sloc[n] = ObjSet(@, loc, stateLocation),
                     !.acc[n] = ObjSet(@, loc, [c |-> c, bound |-> x.initiator[c]])],
                   n, loc)
            ELSE AddField([x EXCEPT
                     !.sloc[n] = ObjSet(@, loc,
                         IF Truthy(stateLocation) THEN stateLocation ELSE loc),
                     !.acc[n] = ObjSet(@, loc, [c |-> c, bound |-> "component"])],
                   n, loc)
        Name(x) ==
            IF IsAction(c) /\ ~Truthy(x.name[c]) THEN NameComponent(x, n, c, loc) ELSE x
        Defaults(x) ==
            IF Truthy(x.dflt[c])
            THEN UpdateDefaultState(x, n, StateLocationAt(x, n, loc), x.dflt[c])
            ELSE x
    IN  Defaults(Name(Expose(Register(
            AddField([wd EXCEPT !.parent[c] = n], c, "parent")))))

\* Namespace.mount; stateLocation Undefined when the call gives none
Mount(wd, n, loc, c, stateLocation) ==
    LET Register(x) ==
            IF ComponentAt(x, n, loc) = Undefined THEN SetComponent(x, n, loc, c) ELSE x
        Expose(x) ==
            IF IsAction(c)
            THEN AddField([x EXCEPT
                     !.sloc[n] = ObjSet(@, loc, stateLocation),
                     !.acc[n] = ObjSet(@, loc, [c |-> c, bound |-> x.initiator[c]])],
                   n, loc)
            ELSE AddField([x EXCEPT
                     !.sloc[n] = ObjSet(@, loc,
                         IF Truthy(stateLocation) THEN stateLocation ELSE loc),
                     !.acc[n] = ObjSet(@, loc, [c |-> c, bound |-> "component"])],
                   n, loc)
        Name(x) ==
            IF IsAction(c) /\ ~Truthy(x.name[c]) THEN NameComponent(x, n, c, loc) ELSE x
        Defaults(x) ==
            IF Truthy(x.dflt[c])
            THEN UpdateDefaultState(x, n, StateLocationAt(x, n, loc), x.dflt[c])
            ELSE x
    IN  Defaults(Name(Expose(Register(
            AddField([wd EXCEPT !.parent[c] = n], c, "parent")))))

\* Namespace.mountAll: entries are the properties of the collection it is
\* given, as for..in visits them at the start of the loop; a component is
\* mounted at its key, anything else is read as a record
RECURSIVE MountAll(_, _, _, _)
MountAll(wd, n, entries, i) ==
    IF Failed(wd) \/ i > Len(entries) THEN wd
    ELSE IF IsComponent(entries[i].c)
    THEN MountAll(Mount(wd, n, entries[i].loc, entries[i].c, Undefined), n, entries, i + 1)
    ELSE MountAll(Mount(wd, n, RecordOf(entries[i].c).location,
                        RecordOf(entries[i].c).component,
                        RecordOf(entries[i].c).stateLocation),
                  n, entries, i + 1)

\* Namespace.configure, the scan of this: every own property holding a
\* component that is not yet among the components is put there under its key
RECURSIVE ScanFields(_, _, _)
ScanFields(wd, n, i) ==
    IF i > Len(wd.fields[n]) THEN wd
    ELSE LET key == wd.fields[n][i]
             held == IF key = "parent" THEN wd.parent[n]
                     ELSE IF key \in DOMAIN wd.acc[n] /\ wd.acc[n][key].bound = "component"
                     THEN wd.acc[n][key].c
                     ELSE Undefined
         IN  ScanFields(IF held # Undefined /\ MountLocation(wd, n, held) = Null
                        THEN SetComponent(wd, n, key, held)
                        ELSE wd,
                        n, i + 1)

\* Namespace.configure, the loop over config.components
RECURSIVE MergeComponents(_, _, _, _)
MergeComponents(wd, n, entries, i) ==
    IF i > Len(entries) THEN wd
    ELSE MergeComponents(SetComponent(wd, n, entries[i].loc, entries[i].c), n, entries, i + 1)

\* Namespace.configure
NamespaceConfigure(wd, n, cfg) ==
    LET Merge(x) == IF cfg.given THEN MergeComponents(x, n, cfg.components, 1) ELSE x
        Remount(x) == MountAll(x, n, x.comps[n], 1)
    IN  Remount(Merge(ScanFields(ApiComponentConfigure(wd, n, cfg), n, 1)))

\* Namespace.unmount
Unmount(wd, n, loc) ==
    LET c == ComponentAt(wd, n, loc)
        DeleteDefault(x) ==
            IF ~x.coll /\ IsRef(x.heap, x.dflt[n])
            THEN Store(x, x.dflt[n], ObjDel(Deref(x.heap, x.dflt[n]), loc))
            ELSE x
    IN  IF c = Undefined THEN Throw(wd, "TypeError")
        ELSE DelField(DeleteDefault([wd EXCEPT
                          !.parent = [x \in Comps |-> IF x = c THEN Undefined ELSE @[x]],
                          !.comps[n] = SelectSeq(@, LAMBDA e : e.loc # loc),
                          !.acc[n] = ObjDel(@, loc)]),
                      n, loc)

---------------------------------------------------------------------------
(* The store, getState and dispatch, and the initiators.  The store is     *)
(* Redux's: dispatch(message) replaces its state by reducer(state,         *)
(* message), synchronously; its reducer is the identity until the root     *)
(* Namespace's reduce is installed.  `sent` lists, by content, the         *)
(* messages store.dispatch was given.                                      *)

\* store.dispatch(message)
StoreDispatch(wd, msg) ==
    LET Sent(x) == [x EXCEPT !.sent = Append(@, Deep(x.heap, msg))]
        Keep(x) == IF Failed(x) THEN x ELSE [x EXCEPT !.store = x.ret]
    IN  IF ~wd.installed THEN Sent(wd)
        ELSE Keep(ComponentReduce(Sent(wd), "root", wd.store, msg, StackDepth))

\* ApiComponent.getSubState and its Collection overrides (state.get(location))
GetSubState(wd, state, location) ==
    IF ~Truthy(location) THEN Return(wd, state)
    ELSE IF state \in {Undefined, Null} THEN Throw(wd, "TypeError")
    ELSE IF wd.coll /\ ~IsRef(wd.heap, state) THEN Throw(wd, "TypeError")
    ELSE Return(wd, Get(wd.heap, state, location))

\* ApiComponent.getState; a component configured with getState has the store's
RECURSIVE GetState(_, _, _)
GetState(wd, c, d) ==
    IF d = 0 THEN Throw(wd, "RangeError")
    ELSE IF wd.ownCaps[c] THEN Return(wd, wd.store)
    ELSE IF wd.parent[c] = Undefined THEN Return(wd, Null)
    ELSE LET Slice(w1) ==
                 IF Failed(w1) THEN w1
                 ELSE GetSubState(w1, w1.ret, StateLocation(wd, wd.parent[c], c))
         IN  Slice(GetState(wd, wd.parent[c], d - 1))

\* ApiComponent.dispatch: the configured store.dispatch, else the parent's
RECURSIVE ApiComponentDispatch(_, _, _, _)

\* ApiComponent.dispatch falling back on the store when there is no parent
ApiComponentDispatch_GlobalStore(wd, c, msg, d) ==
    IF d = 0 THEN Throw(wd, "RangeError")
    ELSE IF wd.ownCaps[c] \/ wd.parent[c] = Undefined THEN StoreDispatch(wd, msg)
    ELSE ApiComponentDispatch(wd, wd.parent[c], msg, d - 1)

ApiComponentDispatch(wd, c, msg, d) ==
    IF d = 0 THEN Throw(wd, "RangeError")
    ELSE IF wd.ownCaps[c] THEN StoreDispatch(wd, msg)
    ELSE IF wd.parent[c] = Undefined THEN Throw(wd, "TypeError")
    ELSE ApiComponentDispatch(wd, wd.parent[c], msg, d - 1)

\* Action.dispatch overwriting the message's type
ActionDispatch_AlwaysStamps(wd, a, msg) ==
    LET Stamp(x) ==
            IF msg = Undefined THEN Alloc(x, Obj1("type", x.name[a]))
            ELSE Store(x, msg, ObjSet(Deref(x.heap, msg), "type", x.name[a]))
        m == IF msg = Undefined THEN NewRef(wd) ELSE msg
        Done(x) == IF Failed(x) THEN x ELSE Return(x, wd.parent[a])
    IN  IF wd.parent[a] = Undefined THEN Throw(Stamp(wd), "TypeError")
        ELSE Done(ApiComponentDispatch(Stamp(wd), wd.parent[a], m, StackDepth))

\* Action.dispatch returning the Action instead of its parent
ActionDispatch_ReturnsSelf(wd, a, msg) ==
    LET Stamp(x) ==
            IF msg = Undefined THEN Alloc(x, Obj1("type", x.name[a]))
            ELSE IF ~HasOwn(x.heap, msg, "type")
            THEN Store(x, msg, ObjSet(Deref(x.heap, msg), "type", x.name[a]))
            ELSE x
        m == IF msg = Undefined THEN NewRef(wd) ELSE msg
        Done(x) == IF Failed(x) THEN x ELSE Return(x, a)
    IN  IF wd.parent[a] = Undefined THEN Throw(Stamp(wd), "TypeError")
        ELSE Done(ApiComponentDispatch(Stamp(wd), wd.parent[a], m, StackDepth))

\* Action.dispatch; msg Undefined when the call gives no message
ActionDispatch(wd, a, msg) ==
    LET Stamp(x) ==
            IF msg = Undefined THEN Alloc(x, Obj1("type", x.name[a]))
            ELSE IF ~HasOwn(x.heap, msg, "type")
            THEN Store(x, msg, ObjSet(Deref(x.heap, msg), "type", x.name[a]))
            ELSE x
        m == IF msg = Undefined THEN NewRef(wd) ELSE msg
        Done(x) == IF Failed(x) THEN x ELSE Return(x, wd.parent[a])
    IN  IF wd.parent[a] = Undefined THEN Throw(Stamp(wd), "TypeError")
        ELSE Done(ApiComponentDispatch(Stamp(wd), wd.parent[a], m, StackDepth))

\* the default initiator leaving a type field of data as it is
ActionInitiator_KeepsType(wd, n, a, data) ==
    LET copy == IF IsRef(wd.heap, data) THEN Deref(wd.heap, data) ELSE EmptyObj
        Done(x) == IF Failed(x) THEN x ELSE Return(x, n)
    IN  Done(ActionDispatch(Alloc(wd, copy), a, NewRef(wd)))

\* Action.initiator, the default: a copy of data with type = action.name is
\* dispatched; returns this
ActionInitiator(wd, n, a, data) ==
    LET copy == IF IsRef(wd.heap, data) THEN Deref(wd.heap, data) ELSE EmptyObj
        Done(x) == IF Failed(x) THEN x ELSE Return(x, n)
    IN  Done(ActionDispatch(Alloc(wd, ObjSet(copy, "type", wd.name[a])), a, NewRef(wd)))

\* the test's greetTarget: state = this.getState();
\* return state.greeting + " " + state.target (with state.get on a collection)
GreetInitiator(wd, n) ==
    LET Greet(w1) ==
            IF Failed(w1) THEN w1
            ELSE IF w1.ret \in {Undefined, Null} THEN Throw(w1, "TypeError")
            ELSE IF w1.coll /\ ~IsRef(w1.heap, w1.ret) THEN Throw(w1, "TypeError")
            ELSE Return(w1, Get(w1.heap, w1.ret, "greeting") \o " "
                                \o Get(w1.heap, w1.ret, "target"))
    IN  Greet(GetState(wd, n, StackDepth))

\* the test's setTarget and setGreeting: return action.dispatch({field: value})
SetFieldInitiator(wd, a, field, value) ==
    ActionDispatch(Alloc(wd, Obj1(field, value)), a, NewRef(wd))

\* the call this[location](arg) of the accessor mount made: the initiator that
\* was bound, with this the Namespace and the Action as first parameter
CallAccessor(wd, n, loc, arg) ==
    IF loc \notin DOMAIN wd.acc[n] \/ wd.acc[n][loc].bound = "component"
    THEN Throw(wd, "TypeError")
    ELSE LET a == wd.acc[n][loc].c
             f == wd.acc[n][loc].bound
             Run(x) ==
                 CASE f = "greet" -> GreetInitiator(x, n)
                   [] f = "setTarget" -> SetFieldInitiator(x, a, "target", arg)
                   [] f = "setGreeting" -> SetFieldInitiator(x, a, "greeting", arg)
                   [] f = "send" -> ActionDispatch(x, a, arg)
                   [] OTHER -> ActionInitiator(x, n, a, arg)
         IN  Run([wd EXCEPT !.calls = Append(@,
                      [fn |-> f, this |-> n, action |-> a, arg |-> Deep(wd.heap, arg)])])

\* store.replaceReducer(root.reduce): Redux dispatches its init message
ReplaceReducer(wd) ==
    LET Keep(x) == IF Failed(x) THEN x ELSE [x EXCEPT !.store = x.ret, !.installed = TRUE]
    IN  Keep(ComponentReduce(Alloc(wd, Obj1("type", "@@redux/INIT")), "root", wd.store,
                             NewRef(wd), StackDepth))

---------------------------------------------------------------------------
(* Unreachable objects are dropped and the live ones renumbered in the     *)
(* order they are met from the store's state, the components' default      *)
(* states and the value last returned, so that a state of the program has  *)
(* one representation.                                                     *)

CompSeq == <<"root", "sub", "greetTarget", "setTarget", "setGreeting", "send", "inc", "watch">>

RECURSIVE Visit(_, _, _)
RECURSIVE VisitKeys(_, _, _, _)
Visit(h, order, v) ==
    IF ~IsRef(h, v) \/ v \in Range(order) THEN order
    ELSE VisitKeys(h, Append(order, v), v, 1)

VisitKeys(h, order, r, i) ==
    IF i > Len(KeySeq) THEN order
    ELSE VisitKeys(h,
                   IF KeySeq[i] \in DOMAIN Deref(h, r)
                   THEN Visit(h, order, Deref(h, r)[KeySeq[i]])
                   ELSE order,
                   r, i + 1)

RECURSIVE VisitAll(_, _, _, _)
VisitAll(h, order, roots, i) ==
    IF i > Len(roots) THEN order
    ELSE VisitAll(h, Visit(h, order, roots[i]), roots, i + 1)

Renamed(order, v) ==
    IF v \in Range(order) THEN Ref(CHOOSE i \in 1..Len(order) : order[i] = v) ELSE v

\* the world with its heap reduced to what `extra` and the program still hold
Collect(wd, extra) ==
    LET roots == <<wd.store>> \o [i \in 1..Len(CompSeq) |-> wd.dflt[CompSeq[i]]]
                     \o <<wd.ret>> \o extra
        Renumber(order) ==
            [wd EXCEPT
                !.heap = [i \in 1..Len(order) |->
                             [k \in DOMAIN Deref(wd.heap, order[i]) |->
                                 Renamed(order, Deref(wd.heap, order[i])[k])]],
                !.store = Renamed(order, @),
                !.ret = Renamed(order, @),
                !.dflt = [c \in Comps |-> Renamed(order, @[c])]]
    IN  Renumber(VisitAll(wd.heap, <<>>, roots, 1))

---------------------------------------------------------------------------
(* What the last step did: the operation, its arguments, and what the      *)
(* properties need of the state before it.                                 *)

Last0 ==
    [op |-> "none", c |-> "none", loc |-> "none", arg |-> Undefined,
     state |-> Undefined, msg |-> Undefined, pre |-> Prim(Undefined), heap |-> <<>>,
     target |-> "world", greeting |-> "hello",
     preC |-> Prim(Undefined), order |-> <<>>,
     old |-> Prim(Undefined), oldC |-> Prim(Undefined), comp |-> "none"]

\* the start of a call from the application: nothing returned or thrown yet
Begin(wd) ==
    [wd EXCEPT !.ret = Undefined, !.err = "", !.fired = <<>>, !.sent = <<>>, !.calls = <<>>]

---------------------------------------------------------------------------
(* SpecReduce: reduce as a function.  Init draws an Action (its name, its  *)
(* defaultState, its reducer), a freshly constructed Namespace, a state    *)
(* value and a message; the two actions apply Action.reduce and            *)
(* Namespace.reduce to them, in a plain and in a Collection world.         *)

\* the state values reduce is tried on: the falsy primitives, a truthy one,
\* and objects
StateInputs == {"undefined", "null", "0", "", "false", "5", "{}", "{x}", "{x,type}"}

StateObject(kind) ==
    CASE kind = "{}" -> EmptyObj
      [] kind = "{x}" -> Obj1("x", "1")
      [] OTHER -> ObjSet(Obj1("x", "1"), "type", "T")

\* the message payloads, and the message types ("absent": no type field)
Payloads == {EmptyObj, Obj1("y", "2"), ObjSet(Obj1("x", "9"), "y", "2")}

TypeInputs == {"A", "B", "absent"}

NameInputs == {"A", "B", Undefined}

ReducerInputs ==
    {OneFn("default"), OneFn("observe"), FnList(<<"default", "observe">>), FnList(<<>>)}

MessageObject(ty, payload) == IF ty = "absent" THEN payload ELSE ObjSet(payload, "type", ty)

\* Action.create({name, defaultState, reducer}) and Namespace.create({name}),
\* then the message and the state as objects of the caller
ReduceWorld(coll, nm, hasDefault, rd, kind, ty, payload) ==
    LET Named(x) == [x EXCEPT !.name["inc"] = nm, !.reducer["inc"] = rd,
                              !.name["root"] = "Root"]
        Default(x) == IF hasDefault THEN AllocDefault(x, "inc", Obj1("value", "0")) ELSE x
        State(x) ==
            IF kind \in {"{}", "{x}", "{x,type}"} THEN Alloc(x, StateObject(kind)) ELSE x
    IN  State(Alloc(Default(AllocDefault(Named(World0(coll)), "root", EmptyObj)),
                    MessageObject(ty, payload)))

ReduceInit ==
    \E nm \in NameInputs, hasDefault \in BOOLEAN, rd \in ReducerInputs,
       kind \in StateInputs, ty \in TypeInputs, payload \in Payloads :
        LET pw == ReduceWorld(FALSE, nm, hasDefault, rd, kind, ty, payload)
            isObj == kind \in {"{}", "{x}", "{x,type}"}
            state == IF isObj THEN Ref(Len(pw.heap)) ELSE kind
            msg == IF isObj THEN Ref(Len(pw.heap) - 1) ELSE Ref(Len(pw.heap))
        IN  /\ w = pw
            /\ cw = ReduceWorld(TRUE, nm, hasDefault, rd, kind, ty, payload)
            /\ last = [Last0 EXCEPT !.op = "input", !.state = state, !.msg = msg,
                                     !.pre = Deep(pw.heap, state), !.heap = pw.heap]

\* inc.reduce(state, msg)
ActionReduceCall ==
    /\ last.op = "input"
    /\ w' = ActionReduce(w, "inc", last.state, last.msg)
    /\ cw' = ActionReduce(cw, "inc", last.state, last.msg)
    /\ last' = [last EXCEPT !.op = "Action.reduce", !.c = "inc"]

\* root.reduce(state, msg), root a Namespace with nothing mounted
NamespaceReduceCall ==
    /\ last.op = "input"
    /\ w' = ComponentReduce(w, "root", last.state, last.msg, StackDepth)
    /\ cw' = ComponentReduce(cw, "root", last.state, last.msg, StackDepth)
    /\ last' = [last EXCEPT !.op = "Namespace.reduce", !.c = "root"]

ReduceNext == ActionReduceCall \/ NamespaceReduceCall

SpecReduce == ReduceInit /\ [][ReduceNext]_vars

Worlds == {w, cw}

ReducedAction == last.op = "Action.reduce"

\* the reducer functions a reduce call applied, in order
FiredFns(wd) == [i \in 1..Len(wd.fired) |-> wd.fired[i].fn]

\* the content of object pre with the message's fields except type written over it
Merged(pre, m) ==
    [k \in DOMAIN pre \cup (DOMAIN m \ {"type"}) |->
        IF k \in DOMAIN m \ {"type"} THEN Prim(m[k]) ELSE pre[k]]

\* C2, as stated: for every state value, also an absent one, Action.reduce
\* applies the reducer to (state, message) exactly when the message's type is
\* the Action's name, and otherwise returns the state it was given.
C2_Original ==
    ReducedAction =>
        \A wd \in Worlds :
            IF TypeMatches(wd, "inc", last.msg)
            THEN FiredFns(wd) # <<>> \/ wd.reducer["inc"].fns = <<>>
            ELSE wd.fired = <<>> /\ wd.ret = last.state

\* C2, amended: for a present (truthy) state, Action.reduce applies the
\* reducer, every function of it in order and the first to the state and
\* message given, exactly when the message's type is the Action's name, and
\* otherwise returns the very state it was given and touches nothing; for an
\* absent (falsy) state it applies no reducer, whatever the type, and returns
\* the Action's defaultState.
C2_TypeGate ==
    ReducedAction =>
        \A wd \in Worlds :
            IF Truthy(last.state) /\ TypeMatches(wd, "inc", last.msg)
            THEN /\ ~Failed(wd) => FiredFns(wd) = wd.reducer["inc"].fns
                 /\ wd.fired # <<>> =>
                        /\ wd.fired[1].state = last.pre
                        /\ wd.fired[1].type = Get(last.heap, last.msg, "type")
                        /\ wd.fired[1].fn = wd.reducer["inc"].fns[1]
                 /\ wd.reducer["inc"].fns # <<>> => wd.fired # <<>>
            ELSE /\ wd.fired = <<>>
                 /\ wd.heap = last.heap
                 /\ wd.ret = IF Truthy(last.state) THEN last.state ELSE wd.dflt["inc"]

C2_Witness ==
    /\ ReducedAction
    /\ Truthy(last.state)
    /\ TypeMatches(w, "inc", last.msg)
    /\ Len(w.fired) = 2
    /\ ~Failed(w)

\* C3, as stated: reduce(s, {type: B}) returns s for any s, the falsy values
\* included, when B is not the Action's name.
C3_Original ==
    (ReducedAction /\ ~TypeMatches(w, "inc", last.msg)) =>
        \A wd \in Worlds : wd.ret = last.state

\* C3, amended: for a message of another type, reduce returns s itself, with
\* the keys and values it had, for any truthy s; for a falsy s (undefined,
\* null, 0, the empty string, false) it returns the Action's defaultState.
C3_OtherTypeIdentity ==
    (ReducedAction /\ ~TypeMatches(w, "inc", last.msg)) =>
        \A wd \in Worlds :
            /\ ~Failed(wd)
            /\ IF Truthy(last.state)
               THEN wd.ret = last.state /\ Deep(wd.heap, wd.ret) = last.pre
               ELSE wd.ret = wd.dflt["inc"]

C3_Witness ==
    /\ ReducedAction
    /\ ~TypeMatches(w, "inc", last.msg)
    /\ IsRef(w.heap, last.state)
    /\ w.ret = last.state
    /\ DOMAIN Deref(w.heap, last.msg) \ {"type"} # {}

\* C4: reduce(undefined, msg) of an Action, or of a Namespace with nothing
\* mounted, returns the component's defaultState itself, whatever the
\* message (also one of the component's own type), and applies no reducer.
C4_IdentityDefault ==
    (last.op \in {"Action.reduce", "Namespace.reduce"} /\ last.state = Undefined) =>
        \A wd \in Worlds :
            /\ ~Failed(wd)
            /\ wd.ret = wd.dflt[last.c]
            /\ wd.fired = <<>>
            /\ wd.heap = last.heap

C4_Witness ==
    /\ ReducedAction
    /\ last.state = Undefined
    /\ ~TypeMatches(w, "inc", last.msg)
    /\ IsRef(w.heap, w.ret)
    /\ w.ret = w.dflt["inc"]

\* C5: with the default reducer and a message of the Action's type, reduce
\* on a state object yields a state whose fields are the message's fields
\* except type, with the message's values, and the input state's other
\* fields unchanged; the message's type is not copied.
C5_DefaultReducer ==
    (/\ ReducedAction
     /\ w.reducer["inc"] = OneFn("default")
     /\ IsRef(last.heap, last.state)
     /\ TypeMatches(w, "inc", last.msg)) =>
        \A wd \in Worlds :
            /\ ~Failed(wd)
            /\ Deep(wd.heap, wd.ret) = Merged(last.pre, Deref(last.heap, last.msg))

C5_Witness ==
    /\ ReducedAction
    /\ w.reducer["inc"] = OneFn("default")
    /\ TypeMatches(w, "inc", last.msg)
    /\ Get(w.heap, last.msg, "type") = "A"
    /\ last.pre = Obj1("x", Prim("1"))
    /\ Deep(w.heap, w.ret) = ObjSet(Obj1("x", Prim("1")), "y", Prim("2"))
    /\ Deep(cw.heap, cw.ret) = ObjSet(Obj1("x", Prim("1")), "y", Prim("2"))

\* C22: with a reducer that is a sequence of functions, reduce of a message
\* of the Action's type on a present state applies the functions in declared
\* order, the first to the state given, each later one to what the one before
\* it returned, all with the same message, and returns what the last one
\* returned (the state itself for an empty sequence).
C22_ReducerSequence ==
    (/\ ReducedAction
     /\ ~w.reducer["inc"].isFn
     /\ Truthy(last.state)
     /\ TypeMatches(w, "inc", last.msg)) =>
        \A wd \in Worlds :
            /\ \A i \in 1..Len(wd.fired) :
                   /\ wd.fired[i].fn = wd.reducer["inc"].fns[i]
                   /\ wd.fired[i].type = Get(last.heap, last.msg, "type")
                   /\ wd.fired[i].state =
                          IF i = 1 THEN last.pre ELSE wd.fired[i - 1].out
            /\ ~Failed(wd) =>
                   /\ Len(wd.fired) = Len(wd.reducer["inc"].fns)
                   /\ Deep(wd.heap, wd.ret) =
                          IF wd.fired = <<>> THEN last.pre
                          ELSE wd.fired[Len(wd.fired)].out
                   /\ wd.fired = <<>> => wd.ret = last.state

C22_Witness ==
    /\ ReducedAction
    /\ w.reducer["inc"] = FnList(<<"default", "observe">>)
    /\ TypeMatches(w, "inc", last.msg)
    /\ last.pre = Obj1("x", Prim("1"))
    /\ FiredFns(cw) = <<"default", "observe">>
    /\ cw.fired[2].state = ObjSet(Obj1("x", Prim("1")), "y", Prim("2"))
    /\ cw.fired[2].state # cw.fired[1].state
    /\ Deep(cw.heap, cw.ret) = cw.fired[2].out
    /\ "seen" \in DOMAIN Deep(w.heap, w.ret)

\* C30, as stated: after Action.reduce(state, msg) with the default reducer
\* and a message of the Action's type that carries a field, the state object
\* passed in has the keys and values it had before the call, and the state
\* returned is another object.
C30_Original ==
    (/\ ReducedAction
     /\ w.reducer["inc"] = OneFn("default")
     /\ IsRef(last.heap, last.state)
     /\ DOMAIN Deref(last.heap, last.msg) \ {"type"} # {}
     /\ TypeMatches(w, "inc", last.msg)) =>
        \A wd \in Worlds :
            /\ Deep(wd.heap, last.state) = last.pre
            /\ wd.ret # last.state

---------------------------------------------------------------------------
(* Spec: the greeter of test/test.js, as a plain and as a Collection       *)
(* program run side by side.  Init is the state after the create calls;    *)
(* the steps install the root's reduce in the store, mount the Actions     *)
(* (with mount or through configure, in any order), and call them.         *)

Targets == {"hn", "everybody"}

Greetings == {"hiya"}

\* Namespace.create({name: "Greeter", defaultState: {greeting: "hello", target:
\* "world"}, dispatch: store.dispatch, getState: store.getState}), a second
\* Namespace "Sub" with an empty default state, and the Actions, each
\* Action.create(function ...)
GreeterWorld(coll) ==
    LET Root(x) ==
            NamespaceConfigure(
                Alloc(x, ObjSet(Obj1("greeting", "hello"), "target", "world")), "root",
                [Config EXCEPT !.name = "Greeter", !.defaultState = NewRef(x),
                               !.caps = TRUE])
        Sub(x) == NamespaceConfigure(x, "sub", [Config EXCEPT !.name = "Sub"])
        Fn(x, a, f) == ActionConfigure(x, a, FunctionConfig(f))
    IN  Collect(
            Fn(Fn(Fn(Fn(Sub(AllocDefault(Root(AllocDefault(World0(coll), "root", EmptyObj)),
                                         "sub", EmptyObj)),
                        "greetTarget", "greet"),
                     "setTarget", "setTarget"),
                  "setGreeting", "setGreeting"),
               "send", "send"),
            <<>>)

Init ==
    /\ w = GreeterWorld(FALSE)
    /\ cw = GreeterWorld(TRUE)
    /\ last = Last0

\* the step taken; target and greeting are the values last set through the
\* store's reducer (the defaults until then)
Before(op, loc, arg) ==
    [Last0 EXCEPT !.op = op, !.loc = loc, !.arg = arg,
                  !.target = last.target, !.greeting = last.greeting]

\* store.replaceReducer(ns.reduce)
Install ==
    /\ ~w.installed
    /\ w' = Collect(ReplaceReducer(Begin(w)), <<>>)
    /\ cw' = Collect(ReplaceReducer(Begin(cw)), <<>>)
    /\ last' = Before("install", "none", Undefined)

\* ns.mount("greetTarget", greetTarget)
MountAction ==
    \E a \in {"greetTarget"} :
        /\ a \notin DOMAIN w.acc["root"]
        /\ w' = Collect(Mount(Begin(w), "root", a, a, Undefined), <<>>)
        /\ cw' = Collect(Mount(Begin(cw), "root", a, a, Undefined), <<>>)
        /\ last' = Before("mount", a, Undefined)

\* ns.mount("sub", sub) and sub.mount("send", send): an Action below a
\* Namespace that has no dispatch of its own
MountBelow ==
    \E e \in {<<"root", "sub">>, <<"sub", "send">>} :
        /\ e[2] \notin DOMAIN w.acc[e[1]]
        /\ w' = Collect(Mount(Begin(w), e[1], e[2], e[2], Undefined), <<>>)
        /\ cw' = Collect(Mount(Begin(cw), e[1], e[2], e[2], Undefined), <<>>)
        /\ last' = Before("mount", e[2], Undefined)

ComponentLists == {<<"setTarget", "setGreeting">>}

\* ns.configure({components: {setTarget: setTarget, setGreeting: setGreeting}})
ConfigureComponents ==
    \E cs \in ComponentLists :
        LET cfg == [Config EXCEPT !.components =
                        [i \in 1..Len(cs) |-> [loc |-> cs[i], c |-> cs[i]]]]
        IN  /\ w' = Collect(NamespaceConfigure(Begin(w), "root", cfg), <<>>)
            /\ cw' = Collect(NamespaceConfigure(Begin(cw), "root", cfg), <<>>)
            /\ last' = Before("configure", "none", Undefined)

\* ns.greetTarget()
CallGreet ==
    /\ "greetTarget" \in DOMAIN w.acc["root"]
    /\ w' = Collect(CallAccessor(Begin(w), "root", "greetTarget", Undefined), <<>>)
    /\ cw' = Collect(CallAccessor(Begin(cw), "root", "greetTarget", Undefined), <<>>)
    /\ last' = Before("greetTarget", "greetTarget", Undefined)

\* ns.setTarget(t)
CallSetTarget ==
    \E t \in Targets :
        /\ "setTarget" \in DOMAIN w.acc["root"]
        /\ w' = Collect(CallAccessor(Begin(w), "root", "setTarget", t), <<>>)
        /\ cw' = Collect(CallAccessor(Begin(cw), "root", "setTarget", t), <<>>)
        /\ last' = [Before("setTarget", "setTarget", t) EXCEPT
                        !.target = IF w.installed THEN t ELSE @]

\* ns.setGreeting(g)
CallSetGreeting ==
    \E g \in Greetings :
        /\ "setGreeting" \in DOMAIN w.acc["root"]
        /\ w' = Collect(CallAccessor(Begin(w), "root", "setGreeting", g), <<>>)
        /\ cw' = Collect(CallAccessor(Begin(cw), "root", "setGreeting", g), <<>>)
        /\ last' = [Before("setGreeting", "setGreeting", g) EXCEPT
                        !.greeting = IF w.installed THEN g ELSE @]

\* the messages the application hands to send's action.dispatch: none, one
\* without a type, one with a type of its own, one whose type is undefined
SendKinds == {"none", "{}", "{x}", "{type,x}", "{type:undefined}"}

SendObject(kind) ==
    CASE kind = "{}" -> EmptyObj
      [] kind = "{x}" -> Obj1("x", "9")
      [] kind = "{type,x}" -> ObjSet(Obj1("x", "9"), "type", "custom")
      [] OTHER -> Obj1("type", Undefined)

\* the call of send's accessor with a message (or none)
SendCall(wd, n, kind) ==
    IF kind = "none" THEN CallAccessor(wd, n, "send", Undefined)
    ELSE CallAccessor(Alloc(wd, SendObject(kind)), n, "send", NewRef(wd))

\* sub.send(message)
CallSend ==
    \E kind \in SendKinds :
        /\ "send" \in DOMAIN w.acc["sub"]
        /\ w' = Collect(SendCall(Begin(w), "sub", kind), <<>>)
        /\ cw' = Collect(SendCall(Begin(cw), "sub", kind), <<>>)
        /\ last' = Before("send", "send", kind)

\* first(x).second(y): the second accessor is read from what the first returned
Chained(wd, loc1, arg1, loc2, arg2) ==
    LET Second(w1) ==
            IF Failed(w1) THEN w1
            ELSE IF w1.ret \notin Namespaces THEN Throw(w1, "TypeError")
            ELSE CallAccessor(w1, w1.ret, loc2, arg2)
    IN  Second(CallAccessor(wd, "root", loc1, arg1))

\* ns.setTarget(t).setGreeting(g) and ns.setTarget(t).greetTarget()
CallChain ==
    \E t \in Targets, second \in {"setGreeting", "greetTarget"} :
        LET g == IF second = "setGreeting" THEN "hiya" ELSE Undefined
        IN  /\ {"setTarget", second} \subseteq DOMAIN w.acc["root"]
            /\ w' = Collect(Chained(Begin(w), "setTarget", t, second, g), <<>>)
            /\ cw' = Collect(Chained(Begin(cw), "setTarget", t, second, g), <<>>)
            /\ last' = [Before("chain", second, t) EXCEPT
                            !.target = IF w.installed THEN t ELSE @,
                            !.greeting = IF w.installed /\ second = "setGreeting"
                                         THEN g ELSE @]

Next ==
    \/ Install
    \/ MountAction
    \/ MountBelow
    \/ ConfigureComponents
    \/ CallGreet
    \/ CallSetTarget
    \/ CallSetGreeting
    \/ CallSend
    \/ CallChain

Spec == Init /\ [][Next]_vars

---------------------------------------------------------------------------
(* Properties of the greeter.                                              *)

\* the call of greetTarget, alone or as the second call of a chain
Greeted == last.op = "greetTarget" \/ (last.op = "chain" /\ last.loc = "greetTarget")

\* C1: with the root's reduce installed in the store, greetTarget() returns
\* "<greeting> <target>" of the values most recently set through setGreeting
\* and setTarget, the default for a field never set ("hello world" at first),
\* in the plain and in the Collection program.
C1_GreeterEndToEnd ==
    \A wd \in Worlds :
        (Greeted /\ wd.installed) =>
            /\ ~Failed(wd)
            /\ wd.ret = last.greeting \o " " \o last.target

C1_Witness ==
    /\ last.op = "greetTarget"
    /\ w.installed
    /\ last.target = "everybody"
    /\ w.ret = "hiya everybody"
    /\ cw.ret = "hiya everybody"

\* the Action whose dispatch the last call ran (last, for a chain)
Dispatched ==
    CASE last.op \in {"setTarget", "setGreeting", "send"} -> last.op
      [] last.op = "chain" /\ last.loc = "setGreeting" -> "setGreeting"
      [] OTHER -> "none"

\* C8: Action.dispatch returns the Action's parent Namespace, with the store
\* already holding the state the message produced; in a chain
\* ns.setTarget(t).second(...) the second call's initiator (greetTarget reading
\* the state) and reducer (setGreeting's, given the state) see the target the
\* first call set.
C8_DispatchReturnsParent ==
    \A wd \in Worlds :
        ~Failed(wd) =>
            /\ Dispatched # "none" => wd.ret = wd.parent[Dispatched]
            /\ (last.op = "setTarget" /\ wd.installed) =>
                    Get(wd.heap, wd.store, "target") = last.arg
            /\ (last.op = "setGreeting" /\ wd.installed) =>
                    Get(wd.heap, wd.store, "greeting") = last.arg
            /\ (last.op = "chain" /\ wd.installed) =>
                    /\ Get(wd.heap, wd.store, "target") = last.arg
                    /\ last.loc = "greetTarget" =>
                            wd.ret = last.greeting \o " " \o last.arg
                    /\ last.loc = "setGreeting" =>
                            /\ wd.ret = "root"
                            /\ Get(wd.heap, wd.store, "greeting") = "hiya"
                            /\ \E i \in 1..Len(wd.fired) :
                                   /\ wd.fired[i].a = "setGreeting"
                                   /\ wd.fired[i].state["target"] = Prim(last.arg)

C8_Witness ==
    /\ last.op = "chain"
    /\ last.loc = "setGreeting"
    /\ last.arg = "everybody"
    /\ \A wd \in Worlds :
           /\ wd.installed /\ ~Failed(wd)
           /\ wd.ret = "root"
           /\ Deep(wd.heap, wd.store)["target"] = Prim("everybody")
           /\ Deep(wd.heap, wd.store)["greeting"] = Prim("hiya")

\* the message store.dispatch is to receive for the last call of an accessor
\* that hands a message to Action.dispatch
Forwarded(wd) ==
    LET stamp(a) == Obj1("type", Prim(wd.name[a]))
    IN  CASE last.op = "setTarget" -> ObjSet(stamp("setTarget"), "target", Prim(last.arg))
          [] last.op = "setGreeting" -> ObjSet(stamp("setGreeting"), "greeting", Prim(last.arg))
          [] last.op = "send" /\ last.arg \in {"none", "{}"} -> stamp("send")
          [] last.op = "send" /\ last.arg = "{x}" -> ObjSet(stamp("send"), "x", Prim("9"))
          [] last.op = "send" /\ last.arg = "{type,x}" ->
                 ObjSet(Obj1("type", Prim("custom")), "x", Prim("9"))
          [] OTHER -> Obj1("type", Prim(Undefined))

\* C9: Action.dispatch gives the message the Action's name as type exactly
\* when the message has no type field or there is no message, leaves a type the
\* message has (an undefined one too) and its other fields as they are, and
\* hands it once to the store dispatch found through the parents; when the
\* parents lead to none, nothing is dispatched and the call throws.
C9_DispatchStampsType ==
    \A wd \in Worlds :
        last.op \in {"setTarget", "setGreeting", "send"} =>
            IF Failed(wd) THEN wd.sent = <<>>
            ELSE wd.sent = <<Forwarded(wd)>>

C9_Witness ==
    /\ last.op = "send"
    /\ last.arg = "{type,x}"
    /\ w.installed
    /\ \A wd \in Worlds :
           /\ ~Failed(wd)
           /\ Len(wd.sent) = 1
           /\ wd.sent[1]["type"] = Prim("custom")
           /\ wd.parent["send"] = "sub" /\ wd.parent["sub"] = "root"

\* the store's state and every default state, by content, are in world y what
\* they were in world x
SameState(x, y) ==
    /\ Deep(y.heap, y.store) = Deep(x.heap, x.store)
    /\ \A c \in Comps : Deep(y.heap, y.dflt[c]) = Deep(x.heap, x.dflt[c])

\* what C20 asks of one program's step from x to y
LazyCapability(x, y) ==
    /\ (last'.op = "mount" /\ last'.loc = "send") => ~Failed(y)
    /\ (last'.op = "send" /\ x.parent["sub"] = Undefined /\ ~x.ownCaps["sub"]) =>
            /\ Failed(y)
            /\ y.sent = <<>>
            /\ SameState(x, y)

\* C20: mounting the Action send in the Namespace Sub succeeds also while Sub is
\* the root of its tree and has no dispatch; the missing dispatch is an error
\* of the call of send's dispatch, and that call hands the store no message
\* and leaves the store's state and every default state as they were.
C20_LazyCapability == [][LazyCapability(w, w') /\ LazyCapability(cw, cw')]_vars

C20_Witness ==
    /\ last.op = "send"
    /\ last.arg = "{x}"
    /\ w.installed
    /\ \A wd \in Worlds :
           /\ wd.parent["send"] = "sub" /\ wd.parent["sub"] = Undefined
           /\ wd.err = "TypeError"
           /\ wd.sent = <<>>
           /\ Deep(wd.heap, wd.store)["target"] = Prim("everybody")

---------------------------------------------------------------------------
(* SpecTree: a Namespace N with a store, and two Actions the application   *)
(* mounts, unmounts and reconfigures while messages are dispatched; again  *)
(* the plain and the Collection program side by side, given the same       *)
(* operations.  inc has the default reducer; watch has a reducer of the    *)
(* application that reads the value under counter.                         *)

\* how the application creates inc: Action.create(), or
\* Action.create({name: "tick", defaultState: {value: 0}})
IncConfigs == {"bare", "named"}

\* and watch: Action.create({reducer: observe}), or with name: "tick" as well
WatchConfigs == {"reducer", "named"}

TreeWorld(coll, incConfig, watchConfig) ==
    LET Root(x) == NamespaceConfigure(x, "root", [Config EXCEPT !.name = "N", !.caps = TRUE])
        Inc(x) ==
            IF incConfig = "bare" THEN ActionConfigure(x, "inc", NoConfig)
            ELSE ActionConfigure(Alloc(x, Obj1("value", "0")), "inc",
                     [Config EXCEPT !.name = "tick", !.defaultState = NewRef(x)])
        Watch(x) ==
            ActionConfigure(x, "watch",
                [Config EXCEPT !.hasReducer = TRUE, !.reducer = OneFn("observe"),
                               !.name = IF watchConfig = "named" THEN "tick" ELSE Undefined])
    IN  Collect(Watch(Inc(Root(AllocDefault(World0(coll), "root", EmptyObj)))), <<>>)

TreeInit ==
    \E i \in IncConfigs, wc \in WatchConfigs :
        /\ w = TreeWorld(FALSE, i, wc)
        /\ cw = TreeWorld(TRUE, i, wc)
        /\ last = Last0

\* the step taken and the locations in the order they were first mounted
TreeBefore(op, loc, arg, order) ==
    [Last0 EXCEPT !.op = op, !.loc = loc, !.arg = arg, !.order = order]

\* store.replaceReducer(N.reduce)
TreeInstall ==
    /\ ~w.installed
    /\ w' = Collect(ReplaceReducer(Begin(w)), <<>>)
    /\ cw' = Collect(ReplaceReducer(Begin(cw)), <<>>)
    /\ last' = TreeBefore("install", "none", Undefined, last.order)

\* the state location a mount is given: "counter" for inc, none for watch
StateLocations(loc) == IF loc = "inc" THEN {"counter"} ELSE {Undefined}

\* N.mount(location, component, stateLocation), each Action at the location of
\* its name; watch always on the whole state
TreeMount ==
    \E loc \in {"inc", "watch"} : \E sl \in StateLocations(loc) :
        /\ w' = Collect(Mount(Begin(w), "root", loc, loc, sl), <<>>)
        /\ cw' = Collect(Mount(Begin(cw), "root", loc, loc, sl), <<>>)
        /\ last' = TreeBefore("mount", loc, Undefined,
                        IF loc \in Range(last.order) THEN last.order
                        ELSE Append(last.order, loc))

\* N.unmount(location)
TreeUnmount ==
    \E loc \in {"inc", "watch"} :
        /\ w' = Collect(Unmount(Begin(w), "root", loc), <<>>)
        /\ cw' = Collect(Unmount(Begin(cw), "root", loc), <<>>)
        /\ last' = TreeBefore("unmount", loc, Undefined,
                        SelectSeq(last.order, LAMBDA x : x # loc))

TreeComponentLists == {<<"watch", "inc">>}

\* N.configure({components: {watch: watch, inc: inc}})
TreeConfigure ==
    \E cs \in TreeComponentLists :
        LET cfg == [Config EXCEPT !.components =
                        [i \in 1..Len(cs) |-> [loc |-> cs[i], c |-> cs[i]]]]
        IN  /\ w' = Collect(NamespaceConfigure(Begin(w), "root", cfg), <<>>)
            /\ cw' = Collect(NamespaceConfigure(Begin(cw), "root", cfg), <<>>)
            /\ last' = TreeBefore("configure", "none", Undefined,
                            last.order \o SelectSeq(cs, LAMBDA x : x \notin Range(last.order)))

\* store.dispatch({type: a.name, value: 5}) for one of the Actions, once it
\* has a name; the store's state before it is remembered, in both programs
DispatchValue(wd, a) ==
    StoreDispatch(Alloc(wd, ObjSet(Obj1("type", wd.name[a]), "value", "5")), NewRef(wd))

\* old = store.getState() before the dispatch: what that reference leads to
\* once the dispatch has returned
HeldState(wd, a) == Deep(DispatchValue(Begin(wd), a).heap, wd.store)

TreeDispatch ==
    \E a \in {"inc", "watch"} :
        /\ w.installed
        /\ w.name[a] # Undefined
        /\ w' = Collect(DispatchValue(Begin(w), a), <<>>)
        /\ cw' = Collect(DispatchValue(Begin(cw), a), <<>>)
        /\ last' = [TreeBefore("dispatch", "none", a, last.order) EXCEPT
                        !.pre = Deep(w.heap, w.store), !.preC = Deep(cw.heap, cw.store),
                        !.old = HeldState(w, a), !.oldC = HeldState(cw, a)]

TreeNext ==
    \/ TreeInstall
    \/ TreeMount
    \/ TreeUnmount
    \/ TreeConfigure
    \/ TreeDispatch

SpecTree == TreeInit /\ [][TreeNext]_vars

---------------------------------------------------------------------------
(* Properties of the tree.                                                 *)

\* the value under key k of a state given by content, undefined when absent
Sub(d, k) == IF k \in DOMAIN d THEN d[k] ELSE Prim(Undefined)

\* a state value given by content is present (truthy)
Present(d) == "prim" \notin DOMAIN d \/ Truthy(d["prim"])

\* the store's state before the last dispatch and now, by content
PreState(wd) == IF wd.coll THEN last.preC ELSE last.pre

PostState(wd) == Deep(wd.heap, wd.store)

\* the registrations of N other than location loc
Others(wd, loc) == {i \in 1..Len(wd.comps["root"]) : wd.comps["root"][i].loc # loc}

\* inc is registered at location inc with state location counter, and the
\* last step reduced {type: inc's name, value: 5} on the store's state
IncMessage(wd) ==
    /\ last.op = "dispatch"
    /\ wd.name[last.arg] = wd.name["inc"]
    /\ ComponentAt(wd, "root", "inc") = "inc"
    /\ StateLocationAt(wd, "root", "inc") = "counter"

WholeStateSameName(wd) ==
    \E i \in 1..Len(wd.comps["root"]) :
        /\ ~Truthy(StateLocationAt(wd, "root", wd.comps["root"][i].loc))
        /\ wd.name[wd.comps["root"][i].c] = wd.name["inc"]

WatchReacts(wd) ==
    /\ last.op = "dispatch"
    /\ wd.name[last.arg] = wd.name["watch"]
    /\ ComponentAt(wd, "root", "watch") = "watch"
    /\ ~Truthy(StateLocationAt(wd, "root", "watch"))
    /\ ComponentAt(wd, "root", "inc") = "inc"
    /\ StateLocationAt(wd, "root", "inc") = "counter"

\* location a was mounted before location b
MountedBefore(a, b) ==
    \E i, j \in 1..Len(last.order) : i < j /\ last.order[i] = a /\ last.order[j] = b

\* the calls of watch's reducer in the last step
WatchCalls(wd) == {i \in 1..Len(wd.fired) : wd.fired[i].a = "watch"}

\* the value under counter in the state watch's reducer was given
WatchSaw(wd) == Sub(wd.fired[CHOOSE i \in WatchCalls(wd) : TRUE].state, "counter")

\* C7: the children are given the message in mount order: the whole-state
\* Action watch, mounted before inc, is given the value under counter as it
\* was before the message; mounted after inc, the value as inc's reduce left it
\* (with the message's value 5 when inc has watch's name and the value was
\* present).
C7_MountOrder ==
    \A wd \in Worlds :
        WatchReacts(wd) =>
            /\ ~Failed(wd)
            /\ Cardinality(WatchCalls(wd)) = 1
            /\ MountedBefore("watch", "inc") \/ MountedBefore("inc", "watch")
            /\ MountedBefore("watch", "inc") =>
                    WatchSaw(wd) = Sub(PreState(wd), "counter")
            /\ MountedBefore("inc", "watch") =>
                    /\ WatchSaw(wd) = Sub(PostState(wd), "counter")
                    /\ (wd.name["inc"] = wd.name["watch"]
                           /\ Present(Sub(PreState(wd), "counter"))) =>
                           Sub(WatchSaw(wd), "value") = Prim("5")
            /\ Sub(PostState(wd), "seen") = Sub(WatchSaw(wd), "value")

C7_Witness ==
    \A wd \in Worlds :
        /\ WatchReacts(wd)
        /\ wd.name["inc"] = wd.name["watch"]
        /\ last.order = <<"inc", "watch">>
        /\ Sub(Sub(PreState(wd), "counter"), "value") = Prim("0")
        /\ Sub(WatchSaw(wd), "value") = Prim("5")

\* C10, as stated: after every step the plain and the Collection program have
\* default states and store states with the same keys and values.
C10_Parity ==
    /\ Deep(w.heap, w.store) = Deep(cw.heap, cw.store)
    /\ \A c \in Comps : Deep(w.heap, w.dflt[c]) = Deep(cw.heap, cw.dflt[c])

\* the Action was created without a name of the application's choice ("tick"
\* is the only name a create call of this specification gives)
CreatedUnnamed(wd, a) == wd.name[a] # "tick"

\* C11, as stated: every Action created without an explicit name, with no
\* configuration or with an object-style one, has the name "<N's name>: L"
\* once it is mounted at location L of N.
C11_Original ==
    \A wd \in Worlds : \A a \in {"inc", "watch"} :
        (ComponentAt(wd, "root", a) = a /\ CreatedUnnamed(wd, a)) =>
            wd.name[a] = wd.name["root"] \o ": " \o a

\* what the children mounted in N contribute to N's default state: inc's
\* default state under inc's state location, or its fields when it has none
\* (watch has no default state, N none of its own)
Contributions(wd) ==
    IF ComponentAt(wd, "root", "inc") = "inc" /\ Truthy(wd.dflt["inc"])
    THEN IF Truthy(StateLocationAt(wd, "root", "inc"))
         THEN Obj1(StateLocationAt(wd, "root", "inc"), Deep(wd.heap, wd.dflt["inc"]))
         ELSE Deep(wd.heap, wd.dflt["inc"])
    ELSE EmptyObj

\* C14, as stated: after any mounts and unmounts N's defaultState is its own
\* defaults merged with the contributions of exactly the children mounted now.
C14_Original ==
    \A wd \in Worlds : Deep(wd.heap, wd.dflt["root"]) = Contributions(wd)

\* C19, as stated: reducing a message leaves every reference to the older
\* store state, the values of its slices included, with the keys and values
\* it had before.
C19_Original ==
    last.op = "dispatch" => (last.old = last.pre /\ last.oldC = last.preC)

---------------------------------------------------------------------------
(* SpecMount and SpecConfigure: the mounting protocol over two Namespaces.  *)
(* N has the store, M has not; inc has a default state, watch a reducer of *)
(* the application.  In SpecMount the application mounts and unmounts inc  *)
(* and M in N and inc in M, installs N's reduce and reads inc's state.  In *)
(* SpecConfigure it mounts inc in N, hands N components as a mapping or as *)
(* a list of records, through configure and through mountAll, installs N's *)
(* reduce and dispatches inc's message.                                    *)

\* N = Namespace.create({name: "N", dispatch, getState}),
\* M = Namespace.create({name: "M"}),
\* inc = Action.create({name: "tick", defaultState: {value: 0}}),
\* watch = Action.create({reducer: observe})
MountWorld(coll) ==
    LET Root(x) == NamespaceConfigure(x, "root", [Config EXCEPT !.name = "N", !.caps = TRUE])
        Below(x) == NamespaceConfigure(x, "sub", [Config EXCEPT !.name = "M"])
        Inc(x) ==
            ActionConfigure(Alloc(x, Obj1("value", "0")), "inc",
                [Config EXCEPT !.name = "tick", !.defaultState = NewRef(x)])
        Watch(x) ==
            ActionConfigure(x, "watch",
                [Config EXCEPT !.hasReducer = TRUE, !.reducer = OneFn("observe")])
    IN  Collect(Watch(Inc(Below(AllocDefault(Root(AllocDefault(World0(coll), "root",
                                                               EmptyObj)),
                                             "sub", EmptyObj)))),
                <<>>)

MountInit ==
    /\ w = MountWorld(FALSE)
    /\ cw = MountWorld(TRUE)
    /\ last = Last0

\* the step taken: the operation, the Namespace it was called on, the location
\* and the further argument
OwnBefore(op, n, loc, arg) == [Last0 EXCEPT !.op = op, !.c = n, !.loc = loc, !.arg = arg]

\* store.replaceReducer(N.reduce)
OwnInstall ==
    /\ ~w.installed
    /\ w' = Collect(ReplaceReducer(Begin(w)), <<>>)
    /\ cw' = Collect(ReplaceReducer(Begin(cw)), <<>>)
    /\ last' = OwnBefore("install", "root", "none", Undefined)

\* the mount calls of the application: <<Namespace, location, component,
\* stateLocation>>
MountCalls ==
    {<<"root", "inc", "inc", "counter">>,
     <<"root", "sub", "sub", Undefined>>,
     <<"sub", "inc", "inc", "counter">>}

\* n.mount(location, component, stateLocation)
OwnMount ==
    \E m \in MountCalls :
        /\ w' = Collect(Mount(Begin(w), m[1], m[2], m[3], m[4]), <<>>)
        /\ cw' = Collect(Mount(Begin(cw), m[1], m[2], m[3], m[4]), <<>>)
        /\ last' = OwnBefore("mount", m[1], m[2], m[4])

\* n.unmount(location) of a location that holds something
OwnUnmount ==
    \E m \in MountCalls :
        /\ ComponentAt(w, m[1], m[2]) # Undefined
        /\ w' = Collect(Unmount(Begin(w), m[1], m[2]), <<>>)
        /\ cw' = Collect(Unmount(Begin(cw), m[1], m[2]), <<>>)
        /\ last' = OwnBefore("unmount", m[1], m[2], Undefined)

\* n.mount(location, component, stateLocation).unmount(location), on a
\* location that holds nothing, of a component that is mounted nowhere
OwnMountUnmount ==
    \E m \in MountCalls :
        /\ ComponentAt(w, m[1], m[2]) = Undefined
        /\ w.parent[m[3]] = Undefined
        /\ \A n \in Namespaces : MountLocation(w, n, m[3]) = Null
        /\ w' = Collect(Unmount(Mount(Begin(w), m[1], m[2], m[3], m[4]), m[1], m[2]), <<>>)
        /\ cw' = Collect(Unmount(Mount(Begin(cw), m[1], m[2], m[3], m[4]), m[1], m[2]), <<>>)
        /\ last' = OwnBefore("mountUnmount", m[1], m[2], m[4])

\* the components the application hands over: none, the mapping {watch: watch},
\* or the list [{location: "watch", component: watch},
\* {location: "inc", component: inc, stateLocation: "counter"}]
ComponentKinds == {"none", "mapping", "list"}

ComponentsOption(kind) ==
    CASE kind = "mapping" -> <<[loc |-> "watch", c |-> "watch"]>>
      [] kind = "list" -> <<[loc |-> "0", c |-> "r1"], [loc |-> "1", c |-> "r2"]>>
      [] OTHER -> <<>>

\* N.configure({}) and N.configure({components: ...})
OwnConfigure ==
    \E kind \in ComponentKinds :
        /\ w' = Collect(NamespaceConfigure(Begin(w), "root",
                      [Config EXCEPT !.components = ComponentsOption(kind)]), <<>>)
        /\ cw' = Collect(NamespaceConfigure(Begin(cw), "root",
                       [Config EXCEPT !.components = ComponentsOption(kind)]), <<>>)
        /\ last' = OwnBefore("configure", "root", "none", kind)

\* N.mountAll(components)
OwnMountAll ==
    \E kind \in ComponentKinds \ {"none"} :
        /\ w' = Collect(MountAll(Begin(w), "root", ComponentsOption(kind), 1), <<>>)
        /\ cw' = Collect(MountAll(Begin(cw), "root", ComponentsOption(kind), 1), <<>>)
        /\ last' = OwnBefore("mountAll", "root", "none", kind)

\* store.dispatch({type: inc.name, value: 5})
OwnDispatch ==
    /\ w.installed
    /\ w' = Collect(DispatchValue(Begin(w), "inc"), <<>>)
    /\ cw' = Collect(DispatchValue(Begin(cw), "inc"), <<>>)
    /\ last' = OwnBefore("dispatch", "root", "none", "inc")

\* inc.getState() and M.getState()
OwnGetState ==
    \E c \in {"inc", "sub"} :
        /\ w' = Collect(GetState(Begin(w), c, StackDepth), <<>>)
        /\ cw' = Collect(GetState(Begin(cw), c, StackDepth), <<>>)
        /\ last' = OwnBefore("getState", "none", "none", c)

MountNext ==
    \/ OwnInstall
    \/ OwnMount
    \/ OwnUnmount
    \/ OwnMountUnmount
    \/ OwnGetState

SpecMount == MountInit /\ [][MountNext]_vars

\* N.mount("inc", inc, "counter")
ConfigureMount ==
    /\ w' = Collect(Mount(Begin(w), "root", "inc", "inc", "counter"), <<>>)
    /\ cw' = Collect(Mount(Begin(cw), "root", "inc", "inc", "counter"), <<>>)
    /\ last' = OwnBefore("mount", "root", "inc", "counter")

ConfigureNext ==
    \/ OwnInstall
    \/ ConfigureMount
    \/ OwnConfigure
    \/ OwnMountAll
    \/ OwnDispatch

SpecConfigure == MountInit /\ [][ConfigureNext]_vars

---------------------------------------------------------------------------
(* Properties of the mounting protocol.                                    *)

\* the Namespaces in whose components map component c is registered
Owners(wd, c) == {n \in Namespaces : MountLocation(wd, n, c) # Null}

\* C12, as stated: every component registered in a Namespace's components map
\* has that Namespace as parent, and no component is registered in the
\* components maps of two Namespaces.
C12_Original ==
    \A wd \in Worlds :
        /\ \A n \in Namespaces : \A i \in 1..Len(wd.comps[n]) :
               IsComponent(wd.comps[n][i].c) => wd.parent[wd.comps[n][i].c] = n
        /\ \A c \in Comps : Cardinality(Owners(wd, c)) <= 1

\* the state of Namespace P, by content: the store's state for N, the value
\* under M's state location in it for M mounted in N, null for M on its own
StateOf(wd, P) ==
    IF P = "root" THEN Deep(wd.heap, wd.store)
    ELSE IF wd.parent[P] = "root"
    THEN Sub(Deep(wd.heap, wd.store), StateLocation(wd, "root", P))
    ELSE Prim(Null)

\* the value under k in P's state, else P's default state's value for k
StoredOrDefault(wd, P, k) ==
    IF k \in DOMAIN StateOf(wd, P) THEN StateOf(wd, P)[k]
    ELSE Sub(Deep(wd.heap, wd.dflt[P]), k)

\* C13, as stated: inc mounted under P with state location k: inc.getState()
\* returns the value under k in P's state, and P's default state's value for
\* k when P's state has none.
C13_Original ==
    \A wd \in Worlds :
        (/\ last.op = "getState"
         /\ last.arg = "inc"
         /\ wd.parent["inc"] # Undefined
         /\ Truthy(StateLocation(wd, wd.parent["inc"], "inc"))) =>
            /\ ~Failed(wd)
            /\ Deep(wd.heap, wd.ret) =
                   StoredOrDefault(wd, wd.parent["inc"],
                                   StateLocation(wd, wd.parent["inc"], "inc"))

\* what Namespace n keeps about its mounts
Bookkeeping(x, n) ==
    [components |-> x.comps[n], defaultState |-> Deep(x.heap, x.dflt[n]),
     accessors |-> x.acc[n], stateLocation |-> x.sloc[n]]

\* C15, as stated: mount(location, c, stateLocation) followed by
\* unmount(location) leaves the Namespace's components, defaultState, accessors
\* and state locations as they were before the mount.
C15_Original ==
    [][last'.op = "mountUnmount" =>
           /\ Bookkeeping(w', last'.c) = Bookkeeping(w, last'.c)
           /\ Bookkeeping(cw', last'.c) = Bookkeeping(cw, last'.c)]_vars

\* C16, as stated: store.getState() has the same keys and values before and
\* after any unmount.
C16_Original ==
    [][last'.op = "unmount" =>
           /\ Deep(w'.heap, w'.store) = Deep(w.heap, w.store)
           /\ Deep(cw'.heap, cw'.store) = Deep(cw.heap, cw.store)]_vars

(***************************************************************************)
(* Properties of configure and mountAll, checked under SpecConfigure.      *)
(***************************************************************************)

\* a default state without what is kept under the locations of `mentioned`
Besides(dflt, mentioned) == [k \in DOMAIN dflt \ mentioned |-> dflt[k]]

\* the locations options.components of the kind mentions
Mentioned(kind) == {ComponentsOption(kind)[i].loc : i \in 1..Len(ComponentsOption(kind))}

\* N.configure(options) taking x to y kept the component mounted at loc
Preserved(x, y, loc, kind) ==
    ComponentAt(x, "root", loc) # Undefined =>
        /\ ComponentAt(y, "root", loc) = ComponentAt(x, "root", loc)
        /\ StateLocationAt(y, "root", loc) = StateLocationAt(x, "root", loc)
        /\ Besides(Deep(y.heap, y.dflt["root"]), Mentioned(kind)) =
               Besides(Deep(x.heap, x.dflt["root"]), Mentioned(kind))

\* C17, as stated: N.configure(options) leaves every component that
\* options.components does not mention mounted at the same location, with the
\* same state location and the same default-state contribution as before.
C17_Original ==
    [][(last'.op = "configure" /\ "inc" \notin Mentioned(last'.arg)) =>
           /\ Preserved(w, w', "inc", last'.arg)
           /\ Preserved(cw, cw', "inc", last'.arg)]_vars

\* the records of the kind are mounted in N at their location and state
\* location
MountedAsPresented(wd, kind) ==
    /\ ComponentAt(wd, "root", "watch") = "watch"
    /\ StateLocationAt(wd, "root", "watch") = Undefined
    /\ kind = "list" =>
           /\ ComponentAt(wd, "root", "inc") = "inc"
           /\ StateLocationAt(wd, "root", "inc") = "counter"

\* C18, as stated: after mountAll(components) or configure({components}) with
\* a mapping or a list of records, each record's component is mounted at the
\* record's location and state location; every entry of N.components is a
\* Component, and reducing a message on a present state does not fail.
C18_Original ==
    \A wd \in Worlds :
        /\ (last.op \in {"configure", "mountAll"} /\ last.arg \in {"mapping", "list"}) =>
               MountedAsPresented(wd, last.arg)
        /\ \A i \in 1..Len(wd.comps["root"]) : IsComponent(wd.comps["root"][i].c)
        /\ last.op = "dispatch" => ~Failed(wd)

(***************************************************************************)
(* Further properties of SpecMount.                                        *)
(***************************************************************************)

\* the root of the tree c is in, bounded by the depth of the tree
RECURSIVE RootOf(_, _, _)
RootOf(wd, c, d) ==
    IF d = 0 \/ wd.parent[c] = Undefined THEN c ELSE RootOf(wd, wd.parent[c], d - 1)

\* C21, as stated: a getState call on a component of a tree whose root has no
\* getState capability fails instead of returning a value.
C21_Original ==
    \A wd \in Worlds :
        (last.op = "getState" /\ ~wd.ownCaps[RootOf(wd, last.arg, StackDepth)]) =>
            Failed(wd)

\* C31, as stated: inc, which has a default state, mounted with state location
\* "counter" on M while M is mounted in N: N's defaultState then holds inc's
\* default state under M's state location and, below it, under "counter", in
\* the plain and in the Collection program.
C31_Original ==
    \A wd \in Worlds :
        (/\ last.op = "mount" /\ last.c = "sub" /\ last.loc = "inc"
         /\ wd.parent["sub"] = "root"
         /\ ComponentAt(wd, "root", "sub") = "sub"
         /\ Truthy(wd.dflt["inc"])) =>
            Sub(Sub(Deep(wd.heap, wd.dflt["root"]), StateLocation(wd, "root", "sub")),
                "counter") = Deep(wd.heap, wd.dflt["inc"])

---------------------------------------------------------------------------
(* SpecThrow: a reducer of the application that throws.  N has the store;  *)
(* inc has the default reducer and is mounted on a slice of N or of M;     *)
(* fail has the same name as inc and a reducer that throws, and is mounted *)
(* on N's whole state.  The application mounts them in any order, installs *)
(* N's reduce and dispatches inc's message.                                *)

\* N = Namespace.create({name: "N", dispatch, getState}),
\* M = Namespace.create({name: "M"}),
\* inc = Action.create({name: "tick", defaultState: {value: 0}}),
\* fail = Action.create({name: "tick", reducer: function () { throw ... }})
ThrowWorld(coll) ==
    LET Root(x) == NamespaceConfigure(x, "root", [Config EXCEPT !.name = "N", !.caps = TRUE])
        Below(x) == NamespaceConfigure(x, "sub", [Config EXCEPT !.name = "M"])
        Inc(x) ==
            ActionConfigure(Alloc(x, Obj1("value", "0")), "inc",
                [Config EXCEPT !.name = "tick", !.defaultState = NewRef(x)])
        Fail(x) ==
            ActionConfigure(x, "watch",
                [Config EXCEPT !.name = "tick", !.hasReducer = TRUE,
                               !.reducer = OneFn("throws")])
    IN  Collect(Fail(Inc(Below(AllocDefault(Root(AllocDefault(World0(coll), "root",
                                                              EmptyObj)),
                                            "sub", EmptyObj)))),
                <<>>)

ThrowInit ==
    /\ w = ThrowWorld(FALSE)
    /\ cw = ThrowWorld(TRUE)
    /\ last = Last0

\* the mount calls: <<Namespace, location, component, stateLocation>>
ThrowMounts ==
    {<<"root", "inc", "inc", "counter">>,
     <<"root", "fail", "watch", Undefined>>,
     <<"root", "sub", "sub", Undefined>>,
     <<"sub", "inc", "inc", "counter">>}

\* n.mount(location, component, stateLocation) on a free location
ThrowMount ==
    \E m \in ThrowMounts :
        /\ ComponentAt(w, m[1], m[2]) = Undefined
        /\ w.parent[m[3]] = Undefined
        /\ w' = Collect(Mount(Begin(w), m[1], m[2], m[3], m[4]), <<>>)
        /\ cw' = Collect(Mount(Begin(cw), m[1], m[2], m[3], m[4]), <<>>)
        /\ last' = OwnBefore("mount", m[1], m[2], m[4])

DispatchedValues == {"5", "6"}

\* store.dispatch({type: "tick", value: v})
ThrowDispatch ==
    \E v \in DispatchedValues :
        /\ w.installed
        /\ w' = Collect(StoreDispatch(Alloc(Begin(w),
                            ObjSet(Obj1("type", "tick"), "value", v)),
                        NewRef(w)), <<>>)
        /\ cw' = Collect(StoreDispatch(Alloc(Begin(cw),
                             ObjSet(Obj1("type", "tick"), "value", v)),
                         NewRef(cw)), <<>>)
        /\ last' = OwnBefore("dispatch", "root", "none", v)

ThrowNext == OwnInstall \/ ThrowMount \/ ThrowDispatch

SpecThrow == ThrowInit /\ [][ThrowNext]_vars

\* C23, as stated: when a reducer of the application throws while a message
\* is reduced, the dispatch call throws that exception, and the store's state
\* with every nested slice and every defaultState are what they were before
\* the dispatch.
C23_Original ==
    [][(last'.op = "dispatch" /\ (Failed(w') \/ Failed(cw'))) =>
           /\ w'.err = "UserError" /\ cw'.err = "UserError"
           /\ SameState(w, w')
           /\ SameState(cw, cw')]_vars

---------------------------------------------------------------------------
(* SpecRemount and SpecCall: mounting at a location in use, and calling    *)
(* accessors.  N has the store; inc and watch are Actions of the same name *)
(* with the default initiator, watch with a reducer of the application.    *)
(* In SpecRemount the application mounts inc and M in N and watch at the   *)
(* location of either, installs N's reduce and dispatches the Actions'     *)
(* message.  In SpecCall it mounts inc in N and in M, gives inc another     *)
(* initiator, installs N's reduce and calls the accessors N.inc and M.inc. *)

\* N = Namespace.create({name: "N", dispatch, getState}),
\* M = Namespace.create({name: "M"}),
\* inc = Action.create({name: "tick", defaultState: {value: 0}}),
\* watch = Action.create({name: "tick", reducer: observe})
CallWorld(coll) ==
    LET Root(x) == NamespaceConfigure(x, "root", [Config EXCEPT !.name = "N", !.caps = TRUE])
        Below(x) == NamespaceConfigure(x, "sub", [Config EXCEPT !.name = "M"])
        Inc(x) ==
            ActionConfigure(Alloc(x, Obj1("value", "0")), "inc",
                [Config EXCEPT !.name = "tick", !.defaultState = NewRef(x)])
        Watch(x) ==
            ActionConfigure(x, "watch",
                [Config EXCEPT !.name = "tick", !.hasReducer = TRUE,
                               !.reducer = OneFn("observe")])
    IN  Collect(Watch(Inc(Below(AllocDefault(Root(AllocDefault(World0(coll), "root",
                                                               EmptyObj)),
                                             "sub", EmptyObj)))),
                <<>>)

CallInit ==
    /\ w = CallWorld(FALSE)
    /\ cw = CallWorld(TRUE)
    /\ last = Last0

\* the mount calls on N: <<location, component, stateLocation>>
AccessMounts ==
    {<<"inc", "inc", "counter">>,
     <<"inc", "watch", Undefined>>,
     <<"sub", "sub", Undefined>>,
     <<"sub", "sub", "below">>,
     <<"sub", "watch", Undefined>>,
     <<"inc", "sub", Undefined>>}

\* N.mount(location, component, stateLocation): a component at the location
\* of its own name while that is free, and at another one while that is in use
AccessMount ==
    \E m \in AccessMounts :
        /\ (m[2] # m[1]) = (ComponentAt(w, "root", m[1]) # Undefined)
        /\ w' = Collect(Mount(Begin(w), "root", m[1], m[2], m[3]), <<>>)
        /\ cw' = Collect(Mount(Begin(cw), "root", m[1], m[2], m[3]), <<>>)
        /\ last' = [OwnBefore("mount", "root", m[1], m[3]) EXCEPT !.comp = m[2]]

\* inc.configure(function (action, data) { return action.dispatch(data); })
Reconfigure ==
    /\ w' = Collect(ActionConfigure(Begin(w), "inc", FunctionConfig("send")), <<>>)
    /\ cw' = Collect(ActionConfigure(Begin(cw), "inc", FunctionConfig("send")), <<>>)
    /\ last' = [OwnBefore("configure", "none", "none", "send") EXCEPT !.comp = "inc"]

\* n.mount("inc", inc, "counter") for N and for M
CallMount ==
    \E n \in Namespaces :
        /\ w' = Collect(Mount(Begin(w), n, "inc", "inc", "counter"), <<>>)
        /\ cw' = Collect(Mount(Begin(cw), n, "inc", "inc", "counter"), <<>>)
        /\ last' = [OwnBefore("mount", n, "inc", "counter") EXCEPT !.comp = "inc"]

\* the data the application calls the accessor with: none, {x: 9},
\* {x: 9, type: "custom"}
DataKinds == {"none", "{x}", "{type,x}"}

\* n.inc(data)
IncCall(wd, n, kind) ==
    IF kind = "none" THEN CallAccessor(wd, n, "inc", Undefined)
    ELSE CallAccessor(Alloc(wd, SendObject(kind)), n, "inc", NewRef(wd))

CallInc ==
    \E n \in Namespaces, kind \in DataKinds :
        /\ "inc" \in DOMAIN w.acc[n]
        /\ w' = Collect(IncCall(Begin(w), n, kind), <<>>)
        /\ cw' = Collect(IncCall(Begin(cw), n, kind), <<>>)
        /\ last' = OwnBefore("call", n, "inc", kind)

RemountNext == OwnInstall \/ AccessMount \/ OwnDispatch

SpecRemount == CallInit /\ [][RemountNext]_vars

CallNext == OwnInstall \/ CallMount \/ Reconfigure \/ CallInc

SpecCall == CallInit /\ [][CallNext]_vars

(***************************************************************************)
(* Properties of SpecRemount.                                              *)
(***************************************************************************)

\* the step from x to y mounted last'.comp in N at a location held by another
\* component
Remounted(x) ==
    /\ last'.op = "mount"
    /\ ComponentAt(x, "root", last'.loc) \notin {Undefined, last'.comp}

\* what C24 asks of one program's step from x to y
FirstRegistrationWins(x, y) ==
    /\ Remounted(x) =>
           /\ ~Failed(y)
           /\ y.comps["root"] = x.comps["root"]
           /\ y.acc["root"][last'.loc] =
                  [c |-> last'.comp,
                   bound |-> IF IsAction(last'.comp) THEN y.initiator[last'.comp]
                             ELSE "component"]
           /\ StateLocationAt(y, "root", last'.loc) =
                  IF IsAction(last'.comp) \/ Truthy(last'.arg) THEN last'.arg
                  ELSE last'.loc
           /\ y.parent[last'.comp] = "root"
    /\ last'.op = "dispatch" =>
           /\ ~Failed(y)
           /\ \A i \in 1..Len(y.fired) : MountLocation(y, "root", y.fired[i].a) # Null
           /\ (/\ Truthy(x.store)
               /\ ComponentAt(y, "root", "inc") = "inc"
               /\ StateLocationAt(y, "root", "inc") = Undefined) =>
                  \E i \in 1..Len(y.fired) : y.fired[i].a = "inc"

\* C24: mounting component B at a location of N that holds component A leaves
\* N's components map as it was, so that reduce goes on delegating to A and
\* never delegates to B; the accessor at the location becomes B's (its bound
\* initiator, or B itself for a Namespace), the state location recorded for
\* the location becomes that of B's mount, B's parent becomes N, and nothing
\* is thrown.
C24_FirstRegistrationWins ==
    [][FirstRegistrationWins(w, w') /\ FirstRegistrationWins(cw, cw')]_vars

C24_Witness ==
    /\ last.op = "dispatch"
    /\ w.parent["sub"] = Undefined
    /\ \A wd \in Worlds :
           /\ ~Failed(wd)
           /\ ComponentAt(wd, "root", "inc") = "inc"
           /\ wd.acc["root"]["inc"].c = "watch"
           /\ wd.parent["watch"] = "root"
           /\ StateLocationAt(wd, "root", "inc") = Undefined
           /\ MountLocation(wd, "root", "watch") = Null
           /\ FiredFns(wd) = <<"default">>
           /\ Sub(Deep(wd.heap, wd.store), "value") = Prim("5")

\* what C25 asks of one program's step from x to y
RecordsStateLocation(y) ==
    /\ last'.op = "mount" =>
           StateLocationAt(y, "root", last'.loc) =
               IF IsAction(last'.comp) \/ Truthy(last'.arg) THEN last'.arg
               ELSE last'.loc
    /\ \A n \in Namespaces, c \in Namespaces :
           MountLocation(y, n, c) # Null => Truthy(StateLocation(y, n, c))

\* C25, as stated: mount records for an Action the state location it is given
\* (none: the whole state) and for a Namespace the one it is given or else the
\* location; after every step each Namespace registered in another has a
\* non-empty state location.
C25_Original == [][RecordsStateLocation(w') /\ RecordsStateLocation(cw')]_vars

(***************************************************************************)
(* Properties of SpecCall.                                                 *)
(***************************************************************************)

\* the data of a call, by content
DataOf(kind) ==
    IF kind = "none" THEN Prim(Undefined)
    ELSE [k \in DOMAIN SendObject(kind) |-> Prim(SendObject(kind)[k])]

\* what initiator f of inc returns when nothing is thrown, called with
\* receiver n in world x: the default one its receiver, the application's one
\* what action.dispatch returns
InitiatorReturns(x, f, n) == IF f = "send" THEN x.parent["inc"] ELSE n

\* the call n.inc(data) taking x to y ran initiator f once, with receiver n,
\* inc as first parameter and data after it, and returned what f returned
Invoked(x, y, f) ==
    /\ y.calls = <<[fn |-> f, this |-> last'.c, action |-> "inc",
                    arg |-> DataOf(last'.arg)]>>
    /\ ~Failed(y) => y.ret = InitiatorReturns(x, f, last'.c)

\* C26, as stated: calling the accessor n.inc with data invokes the initiator
\* inc has at the time of the call, exactly once, with n as receiver, inc as
\* first parameter and data after it, and returns what the initiator returns.
C26_Original ==
    [][last'.op = "call" =>
           /\ Invoked(w, w', w.initiator["inc"])
           /\ Invoked(cw, cw', cw.initiator["inc"])]_vars

\* the message the default initiator makes of data: its fields, and the
\* Action's name as type
Typed(data, name) ==
    [k \in (IF "prim" \in DOMAIN data THEN {} ELSE DOMAIN data) \cup {"type"} |->
        IF k = "type" THEN Prim(name) ELSE data[k]]

\* the call n.inc(data) ran the default initiator
RanDefault(wd) ==
    /\ last.op = "call"
    /\ wd.calls # <<>>
    /\ wd.calls[1].fn = "default"

\* C29: the default initiator, called through n.inc(data), dispatches exactly
\* one message, which has every field of data and the Action's name as type
\* also when data has a type of its own, and returns n, the Namespace whose
\* accessor was called; with a store at the root of inc's tree nothing is
\* thrown.
C29_DefaultInitiator ==
    \A wd \in Worlds :
        RanDefault(wd) =>
            /\ wd.ownCaps[RootOf(wd, "inc", StackDepth)] => ~Failed(wd)
            /\ ~Failed(wd) =>
                   /\ wd.sent = <<Typed(DataOf(last.arg), wd.name["inc"])>>
                   /\ wd.ret = last.c

C29_Witness ==
    /\ last.arg = "{type,x}"
    /\ last.c = "sub"
    /\ w.installed
    /\ \A wd \in Worlds :
           /\ RanDefault(wd)
           /\ ~Failed(wd)
           /\ wd.parent["inc"] = "root"
           /\ wd.sent = <<ObjSet(Obj1("x", Prim("9")), "type", Prim("tick"))>>
           /\ wd.ret = "sub"
           /\ Sub(Sub(Deep(wd.heap, wd.store), "counter"), "x") = Prim("9")

---------------------------------------------------------------------------
(* SpecEndpoint: the network helper.  w is a program with an Endpoint, cw  *)
(* the same program with a JsonEndpoint.  The application constructs the   *)
(* endpoint with or without a body configuration, calls execute, and the   *)
(* browser ends each request: with a response of some status, or with a    *)
(* transport failure.  `inflight` are the requests sent and not yet ended, *)
(* `callbacks` the callbacks of the application called in the last step.   *)

FormContentType == "application/x-www-form-urlencoded; charset=utf-8"

JsonContentType == "application/json; charset=utf-8"

\* new JsonBodyInput()
JsonBodyInput == [contentType |-> JsonContentType, converter |-> "JSON.stringify"]

\* encodeURIComponent on the values the application uses
EncodeURIComponent(v) ==
    CASE v = "x y" -> "x%20y"
      [] v = "p&q" -> "p%26q"
      [] OTHER -> v

\* queryArgs.join("&")
RECURSIVE Join(_, _)
Join(parts, sep) ==
    IF parts = <<>> THEN ""
    ELSE IF Len(parts) = 1 THEN parts[1]
    ELSE parts[1] \o sep \o Join(Tail(parts), sep)

\* Endpoint.toQueryString on an object given as its <<key, value>> pairs in
\* property order; no converter is configured for any argument, so convert is
\* value.toString()
ToQueryString(data) ==
    Join([i \in 1..Len(data) |-> data[i][1] \o "=" \o EncodeURIComponent(data[i][2])], "&")

\* JSON.stringify on such an object
JsonStringify(data) ==
    "{" \o Join([i \in 1..Len(data) |->
                    "\"" \o data[i][1] \o "\":\"" \o data[i][2] \o "\""], ",") \o "}"

\* the Endpoint constructor: the instance's properties are assigned in the
\* order of the code, body (which reads this.toQueryString) before
\* toQueryString; then configure(config), with config.body a JsonBodyInput
\* when one is given
EndpointConstructor(bodyConfig) ==
    LET Method(t) == [t EXCEPT !.method = "GET"]
        Body(t) ==
            [t EXCEPT !.body = [contentType |-> FormContentType,
                                converter |-> t.toQueryString]]
        Parsers(t) == [t EXCEPT !.responseParser = "identity", !.errorParser = "identity"]
        Query(t) == [t EXCEPT !.toQueryString = "toQueryString"]
        Configure(t) == IF bodyConfig = "none" THEN t ELSE [t EXCEPT !.body = JsonBodyInput]
    IN  Configure(Query(Parsers(Body(Method(
            [method |-> Undefined, body |-> Undefined, toQueryString |-> Undefined,
             responseParser |-> Undefined, errorParser |-> Undefined, url |-> "/api",
             inflight |-> <<>>, callbacks |-> <<>>, ret |-> "", err |-> ""])))))

\* the JsonEndpoint constructor: Endpoint's, then body and the parsers
JsonEndpointConstructor(bodyConfig) ==
    [EndpointConstructor(bodyConfig) EXCEPT
        !.body = JsonBodyInput, !.responseParser = "JSON.parse", !.errorParser = "JSON.parse"]

\* the parameters the application executes with, and their parts
ParameterKinds == {"none", "callbacks", "success", "data", "arguments"}

Parameters(kind) ==
    [given |-> kind # "none",
     success |-> kind # "none",
     error |-> kind \notin {"none", "success"},
     data |-> IF kind = "data" THEN <<<<"a", "1">>, <<"b", "x y">>>> ELSE <<>>,
     arguments |-> IF kind = "arguments" THEN <<<<"q", "p&q">>>> ELSE <<>>]

\* this.body.converter(data)
Convert(e, data) ==
    CASE e.body.converter = "toQueryString" -> [e EXCEPT !.ret = ToQueryString(data)]
      [] e.body.converter = "JSON.stringify" -> [e EXCEPT !.ret = JsonStringify(data)]
      [] OTHER -> [e EXCEPT !.err = "TypeError"]

\* Endpoint.execute(parameters): the url, the onload handler, the body, then
\* open, the headers (parameters.headers is read also without parameters) and
\* send
EndpointExecute(e, kind) ==
    LET p == Parameters(kind)
        Url == IF p.arguments # <<>> THEN e.url \o "?" \o ToQueryString(p.arguments)
               ELSE e.url
        Send(x) ==
            IF Failed(x) THEN x
            ELSE IF ~p.given THEN [x EXCEPT !.err = "TypeError"]
            ELSE [x EXCEPT !.inflight = Append(@,
                      [method |-> x.method, url |-> Url, body |-> x.ret,
                       contentType |-> x.body.contentType, parameters |-> kind])]
    IN  Send(IF p.data # <<>> THEN Convert(e, p.data) ELSE e)

\* the ways a request ends: a response with a status, or a transport failure
Outcomes == {"200", "204", "399", "400", "404", "500", "failure"}

Status(outcome) ==
    CASE outcome = "200" -> 200 [] outcome = "204" -> 204 [] outcome = "399" -> 399
      [] outcome = "400" -> 400 [] outcome = "404" -> 404 [] OTHER -> 500

Responses == {"[1]", "oops"}

\* endpoint.responseParser / errorParser on a response text: JSON.parse throws
\* on a text that is not JSON
Parse(e, parser, response) ==
    IF parser = "identity" THEN [e EXCEPT !.ret = response]
    ELSE IF response = "[1]" THEN [e EXCEPT !.ret = "array [1]"]
    ELSE [e EXCEPT !.err = "SyntaxError"]

\* the end of the first request in flight: a response fires load, handled by
\* the onload of execute; a transport failure fires error, for which execute
\* set no handler
EndpointEnd(e, outcome, response) ==
    LET request == e.inflight[1]
        p == Parameters(request.parameters)
        ok == Status(outcome) >= 200 /\ Status(outcome) < 400
        Call(x, which) ==
            IF Failed(x) THEN x
            ELSE [x EXCEPT !.callbacks = Append(@,
                      [callback |-> which, body |-> x.ret, status |-> Status(outcome)])]
        Rest(x) == [x EXCEPT !.inflight = Tail(@)]
    IN  IF outcome = "failure" THEN Rest(e)
        ELSE IF ok /\ p.success THEN Call(Parse(Rest(e), e.responseParser, response), "success")
        ELSE IF ~ok /\ p.error THEN Call(Parse(Rest(e), e.errorParser, response), "error")
        ELSE Rest(e)

\* the start of a call or of an event handler
EndpointBegin(e) == [e EXCEPT !.ret = "", !.err = "", !.callbacks = <<>>]

\* a step of the program with an endpoint: the operation, the parameters of
\* the request, how the request ended and with what response text
EndpointStep(op, kind, outcome, response) ==
    [Last0 EXCEPT !.op = op, !.arg = kind, !.state = outcome, !.msg = response]

\* new Endpoint({url}) and new Endpoint({url, body: new JsonBodyInput()})
BodyConfigs == {"none", "json"}

EndpointInit ==
    \E bodyConfig \in BodyConfigs :
        /\ w = EndpointConstructor(bodyConfig)
        /\ cw = JsonEndpointConstructor(bodyConfig)
        /\ last = [Last0 EXCEPT !.op = "new"]

MaxInFlight == 1

\* endpoint.execute(parameters)
Execute ==
    \E kind \in ParameterKinds :
        /\ Len(w.inflight) < MaxInFlight
        /\ Len(cw.inflight) < MaxInFlight
        /\ w' = EndpointExecute(EndpointBegin(w), kind)
        /\ cw' = EndpointExecute(EndpointBegin(cw), kind)
        /\ last' = EndpointStep("execute", kind, "none", "")

\* the browser ends the request in flight, of both programs where both have one
EndRequest ==
    \E outcome \in Outcomes, response \in Responses :
        /\ w.inflight # <<>> \/ cw.inflight # <<>>
        /\ w' = IF w.inflight = <<>> THEN EndpointBegin(w)
                ELSE EndpointEnd(EndpointBegin(w), outcome, response)
        /\ cw' = IF cw.inflight = <<>> THEN EndpointBegin(cw)
                 ELSE EndpointEnd(EndpointBegin(cw), outcome, response)
        /\ last' = EndpointStep("end",
                       IF cw.inflight = <<>> THEN "none" ELSE cw.inflight[1].parameters,
                       outcome, response)

EndpointNext == Execute \/ EndRequest

SpecEndpoint == EndpointInit /\ [][EndpointNext]_vars

(***************************************************************************)
(* Properties of SpecEndpoint.                                             *)
(***************************************************************************)

\* the callback due for an outcome: success for 200 <= status < 400, error
\* for any other status and for a transport failure
Due(outcome) ==
    IF outcome # "failure" /\ Status(outcome) >= 200 /\ Status(outcome) < 400
    THEN "success" ELSE "error"

\* what C27 asks of one program's step from x to y
OneCallback(x, y) ==
    /\ (last'.op = "execute" /\ last'.arg \in {"callbacks", "arguments"}) =>
           /\ ~Failed(y)
           /\ Len(y.inflight) = Len(x.inflight) + 1
    /\ (/\ last'.op = "end"
        /\ last'.msg = "[1]"
        /\ x.inflight # <<>>
        /\ x.inflight[1].parameters \in {"callbacks", "arguments", "data"}) =>
           /\ Len(y.callbacks) = 1
           /\ y.callbacks[1].callback = Due(last'.state)
           /\ y.callbacks[1].body = IF x.responseParser = "identity" THEN "[1]"
                                    ELSE "array [1]"

\* C27, as stated: execute(parameters) with a success and an error callback
\* performs one request, and however the request ends, with a status or with
\* a transport failure, exactly one callback is called, exactly once, with the
\* parsed body: success when 200 <= status < 400 and error otherwise.
C27_Original == [][OneCallback(w, w') /\ OneCallback(cw, cw')]_vars

\* C28, as stated: an Endpoint constructed without a body configuration,
\* executed with parameters.data, sends one request whose body is the
\* url-escaped key=value pairs of data joined by "&".
C28_Original ==
    (/\ last.op = "execute"
     /\ last.arg = "data"
     /\ w.body.contentType = FormContentType) =>
        /\ ~Failed(w)
        /\ Len(w.inflight) = 1
        /\ w.inflight[1].body = "a=1&b=x%20y"

---------------------------------------------------------------------------
(* SpecAdopt: configure on a Namespace that has a parent.  The application *)
(* mounts and unmounts M in N and inc in M as in SpecMount, and calls      *)
(* M.configure with no option or with N as the parent option; it mounts    *)
(* nothing more once M has registered its parent.                          *)

\* the options of M.configure: {} or {parent: N}
AdoptConfigs == {"empty", "parent"}

AdoptConfig(kind) == IF kind = "parent" THEN [Config EXCEPT !.parent = "root"] ELSE Config

\* M.configure(options)
BelowConfigure ==
    \E kind \in AdoptConfigs :
        /\ w' = Collect(NamespaceConfigure(Begin(w), "sub", AdoptConfig(kind)), <<>>)
        /\ cw' = Collect(NamespaceConfigure(Begin(cw), "sub", AdoptConfig(kind)), <<>>)
        /\ last' = OwnBefore("configure", "sub", "none", kind)

\* the mount calls of SpecMount, made before M has registered its parent
AdoptMount ==
    /\ ComponentAt(w, "sub", "parent") = Undefined
    /\ OwnMount

AdoptNext ==
    \/ OwnInstall
    \/ AdoptMount
    \/ OwnUnmount
    \/ BelowConfigure

SpecAdopt == MountInit /\ [][AdoptNext]_vars

\* c is its own ancestor
RECURSIVE Above(_, _, _)
Above(wd, c, d) ==
    IF d = 0 \/ wd.parent[c] = Undefined THEN {}
    ELSE {wd.parent[c]} \cup Above(wd, wd.parent[c], d - 1)

\* C32, as stated: after any configure call, on a Namespace that has a parent
\* or with a parent option, no component is its own ancestor and no Namespace
\* has its parent registered in its components map.
C32_Original ==
    \A wd \in Worlds :
        last.op = "configure" =>
            /\ \A c \in Comps : c \notin Above(wd, c, Cardinality(Comps))
            /\ \A n \in Namespaces :
                   wd.parent[n] # Undefined => MountLocation(wd, n, wd.parent[n]) = Null

---------------------------------------------------------------------------
(* SpecPath: the mounting protocol of SpecMount with messages dispatched   *)
(* in between: inc's message and a message that is no Action's.            *)

\* store.dispatch({type: "other", value: 5}): no Action has this name
DispatchOther ==
    /\ w.installed
    /\ w' = Collect(StoreDispatch(Alloc(Begin(w), ObjSet(Obj1("type", "other"), "value", "5")),
                                  NewRef(w)), <<>>)
    /\ cw' = Collect(StoreDispatch(Alloc(Begin(cw), ObjSet(Obj1("type", "other"), "value", "5")),
                                   NewRef(cw)), <<>>)
    /\ last' = OwnBefore("dispatch", "root", "none", "other")

PathNext ==
    \/ OwnInstall
    \/ OwnMount
    \/ OwnDispatch
    \/ DispatchOther

SpecPath == MountInit /\ [][PathNext]_vars

\* inc.getState() in world x, by content; "TypeError" and the like when it fails
Read(x) ==
    IF Failed(GetState(Begin(x), "inc", StackDepth))
    THEN Prim(GetState(Begin(x), "inc", StackDepth).err)
    ELSE Deep(x.heap, GetState(Begin(x), "inc", StackDepth).ret)

\* the dispatch taking x to y: every state inc's reducer was handed is what
\* inc.getState() returned before it, and what inc.getState() returns after
\* it is what the reducer returned
ReadIsWritten(x, y) ==
    \A i \in 1..Len(y.fired) :
        y.fired[i].a = "inc" =>
            /\ y.fired[i].state = Read(x)
            /\ y.fired[i].out = Read(y)

\* C33, as stated: after any mounts, unmounts and dispatches, the value
\* inc.getState() returns is the part of the store's state that the
\* Namespaces' reduce passes to inc's reduce and replaces with its result.
C33_Original ==
    [][(last'.op = "dispatch" /\ last'.arg = "inc") => (ReadIsWritten(w, w') /\ ReadIsWritten(cw, cw'))]_vars

\* the default states of all components, by content
Defaults(x) == [c \in Comps |-> Deep(x.heap, x.dflt[c])]

\* C35, as stated: a dispatched message handled by default reducers leaves
\* every Namespace's and every Action's defaultState with the keys and values
\* it had before.
C35_Original ==
    [][last'.op = "dispatch" =>
           (Defaults(w') = Defaults(w) /\ Defaults(cw') = Defaults(cw))]_vars

\* every child registered in n with a state location finds a present value
\* under it in the state, and so on below the Namespaces among them
RECURSIVE SlicesPresent(_, _, _, _)
SlicesPresent(x, n, state, d) ==
    /\ IsRef(x.heap, state)
    /\ \A i \in 1..Len(x.comps[n]) :
           LET c == x.comps[n][i].c
               sl == StateLocationAt(x, n, x.comps[n][i].loc)
           IN  Truthy(sl) =>
                   /\ Truthy(Get(x.heap, state, sl))
                   /\ (c \in Namespaces /\ d > 0) =>
                          SlicesPresent(x, c, Get(x.heap, state, sl), d - 1)

\* the store's reducer given a message that is no Action's took x to y: it
\* returned a state with the keys and values of the one it was given
OtherTypeIdentity(x, y) ==
    SlicesPresent(x, "root", x.store, StackDepth) =>
        /\ ~Failed(y)
        /\ y.fired = <<>>
        /\ Deep(y.heap, y.store) = Deep(x.heap, x.store)

\* C36: for a message whose type is the name of no mounted Action,
\* Namespace.reduce on a present state in which every sliced child finds its
\* slice present returns a state with the same keys and values at every depth.
C36_OtherTypeIdentity ==
    [][(last'.op = "dispatch" /\ last'.arg = "other") =>
           (OtherTypeIdentity(w, w') /\ OtherTypeIdentity(cw, cw'))]_vars

\* the message that is no Action's was reduced on a state two Namespaces
\* deep: M is mounted in N, inc in M and in N, and the values a dispatch of
\* inc's message left under counter and under sub.counter are still there
C36_Witness ==
    /\ last.op = "dispatch" /\ last.arg = "other"
    /\ \A wd \in Worlds :
           /\ ~Failed(wd)
           /\ ComponentAt(wd, "root", "sub") = "sub"
           /\ ComponentAt(wd, "sub", "inc") = "inc"
           /\ ComponentAt(wd, "root", "inc") = "inc"
           /\ SlicesPresent(wd, "root", wd.store, StackDepth)
           /\ Sub(Sub(Sub(Deep(wd.heap, wd.store), "sub"), "counter"), "value") = Prim("5")
           /\ Sub(Sub(Deep(wd.heap, wd.store), "counter"), "value") = Prim("5")

---------------------------------------------------------------------------
(* SpecNames: two Actions created without a name.  N has the store; inc    *)
(* and watch are each created with no configuration or with an object that *)
(* gives no name; the application mounts them at the locations inc and     *)
(* watch, unmounts them, and dispatches through an Action's dispatch.      *)

\* how an Action is created: Action.create(), or Action.create({...}) with
\* defaultState: {value: 0} for inc and reducer: observe for watch
CreateStyles == {"bare", "object"}

NamesWorld(coll, incStyle, watchStyle) ==
    LET Root(x) == NamespaceConfigure(x, "root", [Config EXCEPT !.name = "N", !.caps = TRUE])
        Inc(x) ==
            IF incStyle = "bare" THEN ActionConfigure(x, "inc", NoConfig)
            ELSE ActionConfigure(Alloc(x, Obj1("value", "0")), "inc",
                     [Config EXCEPT !.defaultState = NewRef(x)])
        Watch(x) ==
            IF watchStyle = "bare" THEN ActionConfigure(x, "watch", NoConfig)
            ELSE ActionConfigure(x, "watch",
                     [Config EXCEPT !.hasReducer = TRUE, !.reducer = OneFn("observe")])
    IN  Collect(Watch(Inc(Root(AllocDefault(World0(coll), "root", EmptyObj)))), <<>>)

NamesInit ==
    \E i \in CreateStyles, wc \in CreateStyles :
        /\ w = NamesWorld(FALSE, i, wc)
        /\ cw = NamesWorld(TRUE, i, wc)
        /\ last = Last0

\* N.mount("inc", inc, "counter") and N.mount("watch", watch)
NamesMount ==
    \E a \in {"inc", "watch"} : \E sl \in StateLocations(a) :
        /\ ComponentAt(w, "root", a) = Undefined
        /\ w' = Collect(Mount(Begin(w), "root", a, a, sl), <<>>)
        /\ cw' = Collect(Mount(Begin(cw), "root", a, a, sl), <<>>)
        /\ last' = OwnBefore("mount", "root", a, Undefined)

\* N.unmount(location) of a mounted Action
NamesUnmount ==
    \E a \in {"inc", "watch"} :
        /\ ComponentAt(w, "root", a) # Undefined
        /\ w' = Collect(Unmount(Begin(w), "root", a), <<>>)
        /\ cw' = Collect(Unmount(Begin(cw), "root", a), <<>>)
        /\ last' = OwnBefore("unmount", "root", a, Undefined)

\* a.dispatch({value: 5}) on a mounted Action
DispatchThrough ==
    \E a \in {"inc", "watch"} :
        /\ w.installed
        /\ ComponentAt(w, "root", a) = a
        /\ w' = Collect(ActionDispatch(Alloc(Begin(w), Obj1("value", "5")), a, NewRef(w)), <<>>)
        /\ cw' = Collect(ActionDispatch(Alloc(Begin(cw), Obj1("value", "5")), a, NewRef(cw)),
                         <<>>)
        /\ last' = OwnBefore("dispatchThrough", "root", "none", a)

NamesNext ==
    \/ OwnInstall
    \/ NamesMount
    \/ NamesUnmount
    \/ DispatchThrough

SpecNames == NamesInit /\ [][NamesNext]_vars

\* C34, as stated: inc and watch, created without explicit names and mounted
\* at the locations inc and watch of N, have different names, and a message
\* dispatched through the dispatch of one never has the reducer of the other
\* applied.
C34_Original ==
    \A wd \in Worlds :
        (ComponentAt(wd, "root", "inc") = "inc" /\ ComponentAt(wd, "root", "watch") = "watch")
            =>
            /\ wd.name["inc"] # wd.name["watch"]
            /\ last.op = "dispatchThrough" =>
                   \A i \in 1..Len(wd.fired) : wd.fired[i].a = last.arg

---------------------------------------------------------------------------
(* SpecAgain: mount calls repeated, and unmount of a location that holds   *)
(* nothing.  N has the store, M has not; inc is created with no            *)
(* configuration or with a name and a default state; watch has a reducer   *)
(* of the application.                                                     *)

AgainWorld(coll, incStyle) ==
    LET Root(x) == NamespaceConfigure(x, "root", [Config EXCEPT !.name = "N", !.caps = TRUE])
        Below(x) == NamespaceConfigure(x, "sub", [Config EXCEPT !.name = "M"])
        Inc(x) ==
            IF incStyle = "bare" THEN ActionConfigure(x, "inc", NoConfig)
            ELSE ActionConfigure(Alloc(x, Obj1("value", "0")), "inc",
                     [Config EXCEPT !.name = "tick", !.defaultState = NewRef(x)])
        Watch(x) ==
            ActionConfigure(x, "watch",
                [Config EXCEPT !.hasReducer = TRUE, !.reducer = OneFn("observe")])
    IN  Collect(Watch(Inc(Below(AllocDefault(Root(AllocDefault(World0(coll), "root",
                                                               EmptyObj)),
                                             "sub", EmptyObj)))),
                <<>>)

AgainInit ==
    \E i \in IncConfigs :
        /\ w = AgainWorld(FALSE, i)
        /\ cw = AgainWorld(TRUE, i)
        /\ last = Last0

\* the mount calls of the application: <<Namespace, location, component,
\* stateLocation>>; watch is mounted at the location of inc as well
AgainMounts ==
    {<<"root", "inc", "inc", "counter">>,
     <<"root", "inc", "inc", Undefined>>,
     <<"root", "inc", "watch", Undefined>>,
     <<"root", "sub", "sub", Undefined>>,
     <<"root", "sub", "sub", "below">>,
     <<"sub", "inc", "inc", "counter">>}

\* n.mount(location, component, stateLocation) of a component that is
\* mounted nowhere
AgainMount ==
    \E m \in AgainMounts :
        /\ w.parent[m[3]] = Undefined
        /\ w' = Collect(Mount(Begin(w), m[1], m[2], m[3], m[4]), <<>>)
        /\ cw' = Collect(Mount(Begin(cw), m[1], m[2], m[3], m[4]), <<>>)
        /\ last' = [OwnBefore("mount", m[1], m[2], m[4]) EXCEPT !.comp = m[3]]

\* the mount call just made, made once more with the same arguments
MountAgain ==
    /\ last.op \in {"mount", "again"}
    /\ w' = Collect(Mount(Begin(w), last.c, last.loc, last.comp, last.arg), <<>>)
    /\ cw' = Collect(Mount(Begin(cw), last.c, last.loc, last.comp, last.arg), <<>>)
    /\ last' = [last EXCEPT !.op = "again"]

\* the locations the application unmounts; nothing is ever mounted at
\* "watch" and "constructor"
UnmountLocations == {"inc", "sub", "watch", "constructor"}

\* n.unmount(location) of a location at which nothing is mounted
UnmountFree ==
    \E n \in Namespaces, loc \in UnmountLocations :
        /\ ~Registered(w, n, loc)
        /\ w' = Collect(Unmount(Begin(w), n, loc), <<>>)
        /\ cw' = Collect(Unmount(Begin(cw), n, loc), <<>>)
        /\ last' = OwnBefore("unmountFree", n, loc, Undefined)

AgainNext ==
    \/ AgainMount
    \/ MountAgain
    \/ UnmountFree

SpecAgain == AgainInit /\ [][AgainNext]_vars

\* what a mount of component c in Namespace n decides
Mounted(x, n, c) ==
    [components |-> x.comps[n], stateLocation |-> x.sloc[n],
     defaultState |-> Deep(x.heap, x.dflt[n]), parent |-> x.parent[c], name |-> x.name[c]]

\* C37: mounting the same component at the same location with the same state
\* location a second time leaves the Namespace's components and their order,
\* its state locations, its defaultState and the component's parent and name
\* as they were after the first mount.
C37_MountIdempotent ==
    [][last'.op = "again" =>
           /\ ~Failed(w') /\ ~Failed(cw')
           /\ Mounted(w', last'.c, last'.comp) = Mounted(w, last'.c, last'.comp)
           /\ Mounted(cw', last'.c, last'.comp) = Mounted(cw, last'.c, last'.comp)]_vars

\* inc, created without a name and with no default state or with both, was
\* mounted on the slice counter of M twice while M is mounted in N
C37_Witness ==
    /\ last.op = "again" /\ last.c = "sub" /\ last.comp = "inc"
    /\ \A wd \in Worlds :
           /\ wd.parent["inc"] = "sub" /\ wd.parent["sub"] = "root"
           /\ wd.comps["sub"] = <<[loc |-> "inc", c |-> "inc"]>>
           /\ StateLocationAt(wd, "sub", "inc") = "counter"

\* C38, as stated: unmount(location) for a location at which nothing is
\* mounted raises an error and leaves the Namespace's components,
\* defaultState, accessors and state locations unchanged.
C38_Original ==
    [][last'.op = "unmountFree" =>
           /\ Failed(w') /\ Failed(cw')
           /\ Bookkeeping(w', last'.c) = Bookkeeping(w, last'.c)
           /\ Bookkeeping(cw', last'.c) = Bookkeeping(cw, last'.c)]_vars

====
